---- MODULE Spec2Model ----
(***************************************************************************)
(* ParEvents<E>: the double-buffered, multi-slot event storage of          *)
(* src/src/par_events/mod.rs, with its readers (ParManualEventReader) and  *)
(* the read view (ParEventIteratorWithId).                                 *)
(*                                                                         *)
(* Slot indices are the 0-based indices of the source; the TLA+ sequences  *)
(* are 1-based, so slot s is element s + 1.  An event instance is the      *)
(* record [id, event] of ParEventInstance.                                 *)
(***************************************************************************)
EXTENDS Integers, Sequences, FiniteSets, TLC

(* ------------------------------ bounds --------------------------------- *)
\* number of ids the counter may issue
MaxEvents == 3
\* number of slots (slot 0 included), not counting the slots of writer system states
MaxSlots == 2
\* number of ParManualEventReader values
MaxReaders == 1
\* number of distinct event payloads
NumPayloads == 1
\* longest iterator handed to extend
MaxBatch == 2

Payloads == 1..NumPayloads

VARIABLES
    events_a,      \* ParEvents.events_a: per slot, a sequence of instances
    events_b,      \* ParEvents.events_b: per slot, a sequence of instances
    event_count,   \* ParEvents.event_count (AtomicUsize)
    in_flight,     \* per slot: the instance built by a send that has not been pushed yet
    batch,         \* per slot: the items an extend call has not pulled from its iterator yet
    readers,       \* the ParManualEventReader values: [last_event_count]
    view,          \* the live ParEventIteratorWithId, or NoView
    ret,           \* what the last value-returning call returned, or NoRet
    panicked,      \* a panic has unwound the caller
    hist,          \* history of the run (not program state), see HistInit
    contains_resource, \* the World holds the ParEvents<E> resource
    first_systems, \* the number of event_update_system::<E> systems in the First schedule
    plugins,       \* the number of ParEventsPlugin<E> values added to the App
    writers,       \* the ParManualEventWriter values (system states): [slot_index]
    timeouts,      \* TimeoutMap.timeouts: target -> [duration, instant, idx]
    queues,        \* TimeoutMap.queues: duration -> sequence of targets
    clock,         \* what Instant::now() returns
    inserted,      \* history: the awaited targets in the order of their latest inserts
    user_sessions_map, \* UserSessionsMap: user id -> sequence of session ids
    conns,         \* the connection entities: session id -> [user_id, rx, closed]
    msg_reader,    \* MsgRead: the receiving end of the bridge channel, [queue, closed]
    pc             \* where the recv_msgs system stands

\* the state of the App around the ParEvents<E> resource
appvars == <<contains_resource, first_systems, plugins, writers>>

\* the TimeoutMap resource and the clock
tmvars == <<timeouts, queues, clock, inserted>>

\* the UserSessionsMap resource and the connection entities
connvars == <<user_sessions_map, conns>>

\* the bridge channel and the recv_msgs system
bridgevars == <<msg_reader, pc>>

\* the state of the other modules of the crate
modvars == <<tmvars, connvars, bridgevars>>

vars == <<events_a, events_b, event_count, in_flight, batch, readers, view, ret,
          panicked, hist, appvars, modvars>>

\* the state of ParEvents<E> and of its readers, without the returned value
logvars == <<events_a, events_b, event_count, in_flight, batch, readers, view,
             panicked, hist>>

\* a map with no key
EmptyMap == [x \in {} |-> 0]

\* the other modules' resources as their constructors leave them: TimeoutMap::new(),
\* UserSessionsMap::new(), a bridge channel nobody has written to, no system running
InitMods ==
    /\ timeouts = EmptyMap
    /\ queues = EmptyMap
    /\ clock = 0
    /\ inserted = <<>>
    /\ user_sessions_map = EmptyMap
    /\ conns = EmptyMap
    /\ msg_reader = [queue |-> <<>>, closed |-> FALSE]
    /\ pc = [at |-> "idle", msg |-> 0]

NoInstance == [id |-> -1, event |-> 0]
NoView == [reader |-> 0, event_iter |-> <<>>, unread |-> 0]
NoRet == [op |-> "none", val |-> <<>>]

(* ----------------------------- helpers --------------------------------- *)
\* usize::saturating_sub
saturating_sub(a, b) == IF a > b THEN a - b ELSE 0

\* iter().map(|events| events.iter()).flatten(): the slots' instances, slot by slot
RECURSIVE flatten(_)
flatten(slots) ==
    IF slots = <<>> THEN <<>> ELSE Head(slots) \o flatten(Tail(slots))

\* insertion of x into an id-sorted sequence, after every element with an id <= x.id
RECURSIVE insert_sorted(_, _)
insert_sorted(s, x) ==
    IF s = <<>> THEN <<x>>
    ELSE IF Head(s).id <= x.id THEN <<Head(s)>> \o insert_sorted(Tail(s), x)
    ELSE <<x>> \o s

\* sort_by(|a, b| a.event_id.id.cmp(&b.event_id.id)): a stable sort by id
RECURSIVE sort_by_id(_)
sort_by_id(s) ==
    IF s = <<>> THEN <<>>
    ELSE insert_sorted(sort_by_id(SubSeq(s, 1, Len(s) - 1)), s[Len(s)])

\* iter_a.chain(iter_b).collect() followed by the sort
collect_sorted(a, b) == sort_by_id(flatten(a) \o flatten(b))

IdsOf(s) == {s[i].id : i \in 1..Len(s)}
IdSeq(s) == [i \in 1..Len(s) |-> s[i].id]
EventsOf(s) == [i \in 1..Len(s) |-> s[i].event]

Slots == 0..(Len(events_b) - 1)
Readers == 1..Len(readers)

\* no send or extend is between its fetch_add and its push, and no view is alive
NoSendInFlight ==
    \A s \in 1..Len(in_flight) : in_flight[s] = NoInstance /\ batch[s] = <<>>
NoViewAlive == view = NoView
Quiescent == NoSendInFlight /\ NoViewAlive

(* ------------------------------ history -------------------------------- *)
(* hist records what has happened so far; no action reads it to decide     *)
(* what the program does.                                                  *)
(*   issued[id + 1]  the event of the send that was given id               *)
(*   seen1, seen2    the ids below seen1 were issued before the last       *)
(*                   update / update_drain call, the ids below seen2       *)
(*                   before the last but one                               *)
(*   floor           event_count at the last ParEvents::clear / drain      *)
(*   undrained       an update_drain iterator was dropped before it had    *)
(*                   returned None                                         *)
(*   overlapped      a fetch_add happened while another slot's send was    *)
(*                   between its fetch_add and its push                    *)
(*   raced           a read started while a send was between its fetch_add *)
(*                   and its push                                          *)
(*   rd[r]           per reader: event_count at its creation (born), the   *)
(*                   ids its views have passed (got), whether no id has    *)
(*                   been issued since its last fully consumed read        *)
(*                   (fresh), and its pace: "read" while it has fully read *)
(*                   since the last update, "due" after one update without *)
(*                   such a read, "off" once two updates had no such read  *)
(*                   between them, "cleared" once it was cleared           *)
(*   cur             the ids the live view has passed since its creation   *)
(***************************************************************************)
HistInit ==
    [issued |-> <<>>, seen1 |-> 0, seen2 |-> 0, floor |-> 0,
     undrained |-> FALSE, overlapped |-> FALSE, raced |-> FALSE, rd |-> <<>>,
     cur |-> <<>>]

NewReaderHist ==
    [born |-> event_count, got |-> <<>>, fresh |-> FALSE, pace |-> "read"]

\* the number of update / update_drain calls since id was issued, 2 for two or more
Age(id) == IF id < hist.seen2 THEN 2 ELSE IF id < hist.seen1 THEN 1 ELSE 0

HistIssue(s, e) ==
    [hist EXCEPT
        !.issued = Append(@, e),
        !.overlapped = @ \/ \E t \in 1..Len(in_flight) :
                                t # s + 1 /\ in_flight[t] # NoInstance,
        !.rd = [r \in 1..Len(@) |-> [@[r] EXCEPT !.fresh = FALSE]]]

\* reader r's view has passed the instances in items; full: it has seen the end
HistPassed(r, items, full) ==
    [hist EXCEPT
        !.cur = @ \o IdSeq(items),
        !.rd[r].got = @ \o IdSeq(items),
        !.rd[r].fresh = @ \/ full,
        !.rd[r].pace = IF full /\ @ = "due" THEN "read" ELSE @]

HistUpdate(dropped_early) ==
    [hist EXCEPT
        !.seen1 = event_count,
        !.seen2 = hist.seen1,
        !.undrained = @ \/ dropped_early,
        !.rd = [r \in 1..Len(@) |->
                  [@[r] EXCEPT !.pace = IF @ = "read" THEN "due" ELSE "off"]]]

HistClear ==
    [hist EXCEPT !.floor = event_count]

(* ------------------------------- Init ---------------------------------- *)
\* ParEvents::default(): both buffers hold slot 0, the counter is 0; the value is used
\* on its own, with no plugin, update system or writer system state
Init ==
    /\ events_a = << <<>> >>
    /\ events_b = << <<>> >>
    /\ event_count = 0
    /\ in_flight = <<NoInstance>>
    /\ batch = << <<>> >>
    /\ readers = <<>>
    /\ view = NoView
    /\ ret = NoRet
    /\ panicked = FALSE
    /\ hist = HistInit
    /\ contains_resource = TRUE
    /\ first_systems = 0
    /\ plugins = 0
    /\ writers = <<>>
    /\ InitMods

(* ------------------------------ writers -------------------------------- *)
\* fetch_add with the store of the new value lost
fetch_add_stuck(count) == count

\* fetch_add with two added to the counter
fetch_add_two(count) == count + 2

\* AtomicUsize::fetch_add(1): the new value of the counter
fetch_add(count) == count + 1

\* the ParEventInstance a send builds: the id is the value fetch_add returns
new_instance(count, e) == [id |-> count, event |-> e]

\* push_slot with the slot overwritten instead of appended to
push_slot_replace(b, s, inst) == [b EXCEPT ![s + 1] = <<inst>>]

\* push_slot with the instance put in front of the slot's instances
push_slot_front(b, s, inst) == [b EXCEPT ![s + 1] = <<inst>> \o @]

\* push_slot with the instance appended to every slot
push_slot_all(b, s, inst) == [t \in 1..Len(b) |-> Append(b[t], inst)]

\* Vec::push on the slot of events_b
push_slot(b, s, inst) == [b EXCEPT ![s + 1] = Append(@, inst)]

SlotIdle(s) == in_flight[s + 1] = NoInstance /\ batch[s + 1] = <<>>

\* the ids the running extend calls will still ask for (keeps the counter within MaxEvents)
RECURSIVE Outstanding(_)
Outstanding(bs) == IF bs = <<>> THEN 0 ELSE Len(Head(bs)) + Outstanding(Tail(bs))

\* AddSlot with the push on events_a left out
AddSlot_current_only ==
    /\ ~panicked /\ Quiescent
    /\ Len(events_b) < MaxSlots + Len(writers)
    /\ events_b' = Append(events_b, <<>>)
    /\ in_flight' = Append(in_flight, NoInstance)
    /\ batch' = Append(batch, <<>>)
    /\ ret' = [op |-> "add_slot", val |-> <<Len(events_a)>>]
    /\ UNCHANGED <<events_a, event_count, readers, view, panicked, hist>>
    /\ UNCHANGED <<appvars, modvars>>

\* ParEvents::add_slot
AddSlot ==
    /\ ~panicked /\ Quiescent
    /\ Len(events_a) < MaxSlots + Len(writers)
    /\ events_a' = Append(events_a, <<>>)
    /\ events_b' = Append(events_b, <<>>)
    /\ in_flight' = Append(in_flight, NoInstance)
    /\ batch' = Append(batch, <<>>)
    /\ ret' = [op |-> "add_slot", val |-> <<Len(events_a)>>]
    /\ UNCHANGED <<event_count, readers, view, panicked, hist>>
    /\ UNCHANGED <<appvars, modvars>>

\* missing_slot with the failed lookup passed over instead of unwrapped by expect
missing_slot_ignored(b, s) == FALSE

\* get_events_b().get(slot_index) is None: the expect of get_events_b_slot_mut panics
missing_slot(b, s) == s \notin 0..(Len(b) - 1)

\* ParEvents::send, first step: the fetch_add and the construction of the instance; with
\* no slot of that index the lookup that follows panics and the instance is dropped
Send(s, e) ==
    /\ ~panicked /\ NoViewAlive
    /\ s \in Slots => SlotIdle(s)
    /\ event_count + Outstanding(batch) < MaxEvents
    /\ event_count' = fetch_add(event_count)
    /\ hist' = HistIssue(s, e)
    /\ ret' = NoRet
    /\ IF missing_slot(events_b, s)
       THEN panicked' = TRUE /\ UNCHANGED in_flight
       ELSE /\ in_flight' = [in_flight EXCEPT ![s + 1] = new_instance(event_count, e)]
            /\ UNCHANGED panicked
    /\ UNCHANGED <<events_a, events_b, batch, readers, view>>
    /\ UNCHANGED <<appvars, modvars>>

\* ParEvents::send and ParEvents::extend, the push of the instance just built
Push(s) ==
    /\ ~panicked
    /\ s \in Slots /\ in_flight[s + 1] # NoInstance
    /\ events_b' = push_slot(events_b, s, in_flight[s + 1])
    /\ in_flight' = [in_flight EXCEPT ![s + 1] = NoInstance]
    /\ ret' = NoRet
    /\ UNCHANGED <<events_a, event_count, batch, readers, view, panicked, hist>>
    /\ UNCHANGED <<appvars, modvars>>

\* ParEvents::extend: the call; the slot is looked up before Vec::extend pulls anything
\* (with no slot of that index the call panics there), then Vec::extend pulls the first
\* item through the closure
Extend(s, evs) ==
    /\ ~panicked /\ NoViewAlive
    /\ s \in Slots => SlotIdle(s)
    /\ event_count + Outstanding(batch) + Len(evs) <= MaxEvents
    /\ ret' = NoRet
    /\ IF missing_slot(events_b, s)
       THEN panicked' = TRUE /\ UNCHANGED <<in_flight, batch, event_count, hist>>
       ELSE /\ UNCHANGED panicked
            /\ IF evs = <<>>
               THEN UNCHANGED <<in_flight, batch, event_count, hist>>
               ELSE /\ in_flight' = [in_flight EXCEPT
                                        ![s + 1] = new_instance(event_count, Head(evs))]
                    /\ batch' = [batch EXCEPT ![s + 1] = Tail(evs)]
                    /\ event_count' = fetch_add(event_count)
                    /\ hist' = HistIssue(s, Head(evs))
    /\ UNCHANGED <<events_a, events_b, readers, view>>
    /\ UNCHANGED <<appvars, modvars>>

\* ParEvents::extend: Vec::extend pulls the next item through the closure
ExtendNext(s) ==
    /\ ~panicked
    /\ s \in Slots /\ in_flight[s + 1] = NoInstance /\ batch[s + 1] # <<>>
    /\ in_flight' = [in_flight EXCEPT ![s + 1] = new_instance(event_count, Head(batch[s + 1]))]
    /\ batch' = [batch EXCEPT ![s + 1] = Tail(@)]
    /\ event_count' = fetch_add(event_count)
    /\ hist' = HistIssue(s, Head(batch[s + 1]))
    /\ ret' = NoRet
    /\ UNCHANGED <<events_a, events_b, readers, view, panicked>>
    /\ UNCHANGED <<appvars, modvars>>

(* --------------------------- update, clear, drain ---------------------- *)
\* the slots with every one of them emptied
emptied(slots) == [s \in 1..Len(slots) |-> <<>>]

(* The iterator update_drain returns, polled n times and then dropped.     *)
(* iter_mut().map(drain(..)).flatten() is lazy: a slot's drain(..) is      *)
(* created when the flatten reaches that slot, and a slot whose drain was  *)
(* created is empty once the iterator is dropped.  A poll walks over empty *)
(* slots until it finds an item; the poll after the last item walks to the *)
(* end.  yielded: the instances the polls returned; slots: what is left.   *)
RECURSIVE poll_drain(_, _)
poll_drain(slots, n) ==
    IF n = 0 THEN [yielded |-> <<>>, slots |-> slots]
    ELSE IF slots = <<>> THEN [yielded |-> <<>>, slots |-> <<>>]
    ELSE IF Len(Head(slots)) >= n /\ n >= 1
         THEN [yielded |-> SubSeq(Head(slots), 1, n),
               slots |-> << <<>> >> \o Tail(slots)]
         ELSE LET rest == poll_drain(Tail(slots), n - Len(Head(slots)))
              IN  [yielded |-> Head(slots) \o rest.yielded,
                   slots |-> << <<>> >> \o rest.slots]

\* update_drain without the swap: the current buffer is drained in place
update_drain_no_swap(a, b, n) ==
    LET polled == poll_drain(b, n)
    IN  [a |-> a, b |-> polled.slots, yielded |-> polled.yielded]

\* update_drain with the returned instances put in id order
update_drain_by_id(a, b, n) ==
    LET polled == poll_drain(a, n)
    IN  [a |-> b, b |-> polled.slots, yielded |-> sort_by_id(polled.yielded)]

\* ParEvents::update_drain: the swap, then the iterator polled n times and dropped.
\* The result is [a, b, yielded]: the two buffers after the call and the instances
\* whose events the iterator returned.
update_drain(a, b, n) ==
    LET polled == poll_drain(a, n)
    IN  [a |-> b, b |-> polled.slots, yielded |-> polled.yielded]

\* update with the returned iterator dropped unpolled
update_swap_only(a, b) == update_drain(a, b, 0)

\* ParEvents::update: update_drain().for_each(drop) polls the iterator to its end
update(a, b) == update_drain(a, b, Len(flatten(a)) + 1)

\* ParEvents::update
Update ==
    /\ ~panicked /\ Quiescent
    /\ LET u == update(events_a, events_b)
       IN  /\ events_a' = u.a
           /\ events_b' = u.b
           /\ ret' = [op |-> "update", val |-> <<>>]
           /\ hist' = HistUpdate(FALSE)
    /\ UNCHANGED <<event_count, in_flight, batch, readers, view, panicked>>
    /\ UNCHANGED <<appvars, modvars>>

\* ParEvents::update_drain, the returned iterator polled n times (n = the number of
\* items + 1: to its end) and then dropped
UpdateDrain(n) ==
    /\ ~panicked /\ Quiescent
    /\ n \in 0..(Len(flatten(events_a)) + 1)
    /\ LET u == update_drain(events_a, events_b, n)
       IN  /\ events_a' = u.a
           /\ events_b' = u.b
           /\ ret' = [op |-> "update_drain", val |-> u.yielded]
           /\ hist' = HistUpdate(n <= Len(flatten(events_a)))
    /\ UNCHANGED <<event_count, in_flight, batch, readers, view, panicked>>
    /\ UNCHANGED <<appvars, modvars>>

\* ParEvents::clear
Clear ==
    /\ ~panicked /\ Quiescent
    /\ events_a' = emptied(events_a)
    /\ events_b' = emptied(events_b)
    /\ ret' = NoRet
    /\ hist' = HistClear
    /\ UNCHANGED <<event_count, in_flight, batch, readers, view, panicked>>
    /\ UNCHANGED <<appvars, modvars>>

\* Drain with the previous buffer left out
Drain_current_only ==
    /\ ~panicked /\ Quiescent
    /\ events_b' = emptied(events_b)
    /\ ret' = [op |-> "drain", val |-> collect_sorted(emptied(events_a), events_b)]
    /\ hist' = HistClear
    /\ UNCHANGED <<events_a, event_count, in_flight, batch, readers, view, panicked>>
    /\ UNCHANGED <<appvars, modvars>>

\* ParEvents::drain: both buffers are drained into a vector at once, which is sorted
Drain ==
    /\ ~panicked /\ Quiescent
    /\ events_a' = emptied(events_a)
    /\ events_b' = emptied(events_b)
    /\ ret' = [op |-> "drain", val |-> collect_sorted(events_a, events_b)]
    /\ hist' = HistClear
    /\ UNCHANGED <<event_count, in_flight, batch, readers, view, panicked>>
    /\ UNCHANGED <<appvars, modvars>>

\* ParEvents::len
ParEvents_len == Len(flatten(events_a)) + Len(flatten(events_b))

\* ParEvents::is_empty
ParEvents_is_empty == ParEvents_len = 0

(* ------------------------------- readers ------------------------------- *)
\* ParEvents::get_reader: ParManualEventReader::default()
GetReader ==
    /\ ~panicked /\ Quiescent
    /\ Len(readers) < MaxReaders
    /\ readers' = Append(readers, [last_event_count |-> 0])
    /\ hist' = [hist EXCEPT !.rd = Append(@, NewReaderHist)]
    /\ ret' = NoRet
    /\ UNCHANGED <<events_a, events_b, event_count, in_flight, batch, view, panicked>>
    /\ UNCHANGED <<appvars, modvars>>

\* ParEvents::get_reader_current
GetReaderCurrent ==
    /\ ~panicked /\ Quiescent
    /\ Len(readers) < MaxReaders
    /\ readers' = Append(readers, [last_event_count |-> event_count])
    /\ hist' = [hist EXCEPT !.rd = Append(@, NewReaderHist)]
    /\ ret' = NoRet
    /\ UNCHANGED <<events_a, events_b, event_count, in_flight, batch, view, panicked>>
    /\ UNCHANGED <<appvars, modvars>>

\* ReaderClear with every reader moved to the counter, not only r
ReaderClear_all(r) ==
    /\ ~panicked /\ Quiescent
    /\ r \in Readers
    /\ readers' = [q \in Readers |-> [last_event_count |-> event_count]]
    /\ hist' = [hist EXCEPT !.rd[r].pace = "cleared"]
    /\ ret' = NoRet
    /\ UNCHANGED <<events_a, events_b, event_count, in_flight, batch, view, panicked>>
    /\ UNCHANGED <<appvars, modvars>>

\* ParManualEventReader::clear
ReaderClear(r) ==
    /\ ~panicked /\ Quiescent
    /\ r \in Readers
    /\ readers' = [readers EXCEPT ![r].last_event_count = event_count]
    /\ hist' = [hist EXCEPT !.rd[r].pace = "cleared"]
    /\ ret' = NoRet
    /\ UNCHANGED <<events_a, events_b, event_count, in_flight, batch, view, panicked>>
    /\ UNCHANGED <<appvars, modvars>>

\* new_view without the skip of the instances already seen
new_view_no_skip(last, a, b, count) ==
    LET event_iter == collect_sorted(a, b)
    IN  IF event_iter # <<>>
        THEN [panic |-> FALSE,
              last_event_count |-> IF last < event_iter[1].id THEN event_iter[1].id ELSE last,
              event_iter |-> event_iter, unread |-> Len(event_iter)]
        ELSE [panic |-> FALSE, last_event_count |-> count,
              event_iter |-> <<>>, unread |-> 0]

\* new_view without the advance of a stale last_event_count to the oldest stored id
new_view_no_catch_up(last, a, b, count) ==
    LET event_iter == collect_sorted(a, b)
    IN  IF event_iter # <<>>
        THEN LET start_index == saturating_sub(last, event_iter[1].id)
             IN  IF start_index > Len(event_iter)
                 THEN [panic |-> TRUE, last_event_count |-> last,
                       event_iter |-> <<>>, unread |-> 0]
                 ELSE [panic |-> FALSE, last_event_count |-> last,
                       event_iter |-> SubSeq(event_iter, start_index + 1, Len(event_iter)),
                       unread |-> Len(event_iter) - start_index]
        ELSE [panic |-> FALSE, last_event_count |-> count,
              event_iter |-> <<>>, unread |-> 0]

(* ParEventIteratorWithId::new for a reader whose last_event_count is last,*)
(* over the buffers a and b with the counter at count.  The result gives   *)
(* the reader's last_event_count after the call and the view's event_iter  *)
(* and unread.  panic: `event_iter.len() - start_index` overflows (a debug *)
(* build panics there; a release build wraps and panics in the             *)
(* drain(start_index..) that follows), before the reader is written.       *)
new_view(last, a, b, count) ==
    LET event_iter == collect_sorted(a, b)
    IN  IF event_iter # <<>>
        THEN LET oldest_event == event_iter[1].id
                 start_index == saturating_sub(last, oldest_event)
             IN  IF start_index > Len(event_iter)
                 THEN [panic |-> TRUE, last_event_count |-> last,
                       event_iter |-> <<>>, unread |-> 0]
                 ELSE [panic |-> FALSE,
                       last_event_count |-> IF last < oldest_event THEN oldest_event ELSE last,
                       event_iter |-> SubSeq(event_iter, start_index + 1, Len(event_iter)),
                       unread |-> Len(event_iter) - start_index]
        ELSE [panic |-> FALSE, last_event_count |-> count,
              event_iter |-> <<>>, unread |-> 0]

\* ParManualEventReader::read_with_id (read is read_with_id().without_id()) of reader r;
\* racing: a send is between its fetch_add and its push at the call
read_with_id(r, racing) ==
    /\ LET nv == new_view(readers[r].last_event_count, events_a, events_b, event_count)
       IN  IF nv.panic
           THEN /\ panicked' = TRUE
                /\ UNCHANGED <<readers, view, hist>>
           ELSE /\ readers' = [readers EXCEPT ![r].last_event_count = nv.last_event_count]
                /\ view' = [reader |-> r, event_iter |-> nv.event_iter, unread |-> nv.unread]
                /\ hist' = [hist EXCEPT !.cur = <<>>, !.raced = @ \/ racing]
                /\ UNCHANGED panicked
    /\ ret' = NoRet
    /\ UNCHANGED <<events_a, events_b, event_count, in_flight, batch>>
    /\ UNCHANGED <<appvars, modvars>>

\* a read in a phase of its own: no send is in flight
ReadWithId(r) ==
    /\ ~panicked /\ Quiescent
    /\ r \in Readers
    /\ read_with_id(r, FALSE)

\* a read by a system that runs in parallel with a writer's system: the SystemParam of
\* ParEventWriter asks for shared access to the resource, as the reader's does, so the
\* read may fall between a send's fetch_add and its push
ReadWithIdRacing(r) ==
    /\ ~panicked /\ NoViewAlive /\ ~NoSendInFlight
    /\ r \in Readers
    /\ read_with_id(r, TRUE)

\* what the four consuming methods of the view do to the reader and the view:
\* [advance, event_iter, unread, item, passed]: the amount added to last_event_count,
\* the view's fields afterwards, the item returned (<<>> for None) and the instances
\* the call has taken out of event_iter.
\* iter_next with the reader left where it was
iter_next_stay(v) ==
    IF v.event_iter # <<>>
    THEN [advance |-> 0, event_iter |-> Tail(v.event_iter), unread |-> v.unread - 1,
          item |-> <<Head(v.event_iter)>>, passed |-> <<Head(v.event_iter)>>]
    ELSE [advance |-> 0, event_iter |-> <<>>, unread |-> v.unread,
          item |-> <<>>, passed |-> <<>>]

iter_next(v) ==
    IF v.event_iter # <<>>
    THEN [advance |-> 1, event_iter |-> Tail(v.event_iter), unread |-> v.unread - 1,
          item |-> <<Head(v.event_iter)>>, passed |-> <<Head(v.event_iter)>>]
    ELSE [advance |-> 0, event_iter |-> <<>>, unread |-> v.unread,
          item |-> <<>>, passed |-> <<>>]

\* ExactSizeIterator::len of ParEventIteratorWithId
iter_len(v) == v.unread

\* iter_nth with unread lowered by one, whatever n
iter_nth_one_less(v, n) ==
    IF n < Len(v.event_iter)
    THEN [advance |-> n + 1,
          event_iter |-> SubSeq(v.event_iter, n + 2, Len(v.event_iter)),
          unread |-> v.unread - 1,
          item |-> <<v.event_iter[n + 1]>>, passed |-> SubSeq(v.event_iter, 1, n + 1)]
    ELSE [advance |-> v.unread, event_iter |-> <<>>, unread |-> 0,
          item |-> <<>>, passed |-> v.event_iter]

iter_nth(v, n) ==
    IF n < Len(v.event_iter)
    THEN [advance |-> n + 1,
          event_iter |-> SubSeq(v.event_iter, n + 2, Len(v.event_iter)),
          unread |-> v.unread - (n + 1),
          item |-> <<v.event_iter[n + 1]>>, passed |-> SubSeq(v.event_iter, 1, n + 1)]
    ELSE [advance |-> v.unread, event_iter |-> <<>>, unread |-> 0,
          item |-> <<>>, passed |-> v.event_iter]

iter_last(v) ==
    IF v.event_iter = <<>>
    THEN [advance |-> 0, event_iter |-> <<>>, unread |-> v.unread,
          item |-> <<>>, passed |-> <<>>]
    ELSE [advance |-> v.unread, event_iter |-> <<>>, unread |-> v.unread,
          item |-> <<v.event_iter[Len(v.event_iter)]>>, passed |-> v.event_iter]

iter_count(v) ==
    [advance |-> v.unread, event_iter |-> <<>>, unread |-> v.unread,
     item |-> <<v.unread>>, passed |-> v.event_iter]

\* the step of a consuming method: op names it, c is its result, full tells whether the
\* caller has seen the end of the view, gone whether the method took the view by value
IterStep(op, c, full, gone) ==
    /\ readers' = [readers EXCEPT ![view.reader].last_event_count = @ + c.advance]
    /\ view' = IF gone THEN NoView
               ELSE [view EXCEPT !.event_iter = c.event_iter, !.unread = c.unread]
    /\ ret' = [op |-> op, val |-> c.item]
    /\ hist' = IF gone THEN [HistPassed(view.reader, c.passed, full) EXCEPT !.cur = <<>>]
               ELSE HistPassed(view.reader, c.passed, full)
    /\ UNCHANGED <<events_a, events_b, event_count, in_flight, batch, panicked>>
    /\ UNCHANGED <<appvars, modvars>>

\* Iterator::next of ParEventIteratorWithId
IterNext ==
    /\ ~panicked /\ view # NoView
    /\ IterStep("next", iter_next(view), view.event_iter = <<>>, FALSE)

\* Iterator::nth of ParEventIteratorWithId
IterNth(n) ==
    /\ ~panicked /\ view # NoView
    /\ IterStep("nth", iter_nth(view, n), n >= Len(view.event_iter), FALSE)

\* Iterator::last of ParEventIteratorWithId
IterLast ==
    /\ ~panicked /\ view # NoView
    /\ IterStep("last", iter_last(view), TRUE, TRUE)

\* Iterator::count of ParEventIteratorWithId
IterCount ==
    /\ ~panicked /\ view # NoView
    /\ IterStep("count", iter_count(view), TRUE, TRUE)

\* IterDrop with the reader moved past the items the view still held
IterDrop_skip_rest ==
    /\ ~panicked /\ view # NoView
    /\ view' = NoView
    /\ readers' = [readers EXCEPT ![view.reader].last_event_count = @ + view.unread]
    /\ ret' = NoRet
    /\ hist' = [hist EXCEPT !.cur = <<>>]
    /\ UNCHANGED <<events_a, events_b, event_count, in_flight, batch, panicked>>
    /\ UNCHANGED <<appvars, modvars>>

\* the view is dropped
IterDrop ==
    /\ ~panicked /\ view # NoView
    /\ view' = NoView
    /\ ret' = NoRet
    /\ hist' = [hist EXCEPT !.cur = <<>>]
    /\ UNCHANGED <<events_a, events_b, event_count, in_flight, batch, readers, panicked>>
    /\ UNCHANGED <<appvars, modvars>>

(* ----------------------- len, is_empty of a reader --------------------- *)
\* reader_len that counts every stored instance, whatever the reader has seen
reader_len_all(last, a, b) ==
    [overflow |-> FALSE, unread |-> Len(collect_sorted(a, b))]

(* ParManualEventReader::len for a reader whose last_event_count is last,  *)
(* over the buffers a and b.  overflow: `event_iter.len() - start_index`   *)
(* goes below 0; unread is then the negative difference d, which stands    *)
(* for the wrapped value 2^64 + d of a build without overflow checks.      *)
reader_len(last, a, b) ==
    LET event_iter == collect_sorted(a, b)
    IN  IF event_iter # <<>>
        THEN LET oldest_event == event_iter[1].id
                 start_index == saturating_sub(last, oldest_event)
                 unread == Len(event_iter) - start_index
             IN  [overflow |-> start_index > Len(event_iter), unread |-> unread]
        ELSE [overflow |-> FALSE, unread |-> 0]

\* the builds of the crate: with overflow checks (a subtraction below 0 panics) and
\* without them (it wraps)
Builds == {"debug", "release"}

\* LenStep with the reader moved to the counter, as a read of everything would leave it
LenStep_catch_up(r, op, l, val, build) ==
    /\ ret' = [op |-> op, val |-> <<val>>]
    /\ readers' = [readers EXCEPT ![r].last_event_count = event_count]
    /\ UNCHANGED <<events_a, events_b, event_count, in_flight, batch, view, panicked, hist>>
    /\ UNCHANGED <<appvars, modvars>>

\* the step of len / is_empty of reader r: the reader and the buffers are behind shared
\* references; val is what the call returns when the subtraction does not panic
LenStep(r, op, l, val, build) ==
    /\ IF l.overflow /\ build = "debug"
       THEN panicked' = TRUE /\ ret' = NoRet
       ELSE ret' = [op |-> op, val |-> <<val>>] /\ UNCHANGED panicked
    /\ UNCHANGED <<events_a, events_b, event_count, in_flight, batch, readers, view, hist>>
    /\ UNCHANGED <<appvars, modvars>>

\* ParManualEventReader::len; a live view of the reader borrows it mutably
ReaderLen(r) ==
    /\ ~panicked /\ NoSendInFlight
    /\ r \in Readers /\ view.reader # r
    /\ LET l == reader_len(readers[r].last_event_count, events_a, events_b)
       IN  \E build \in Builds : LenStep(r, "len", l, l.unread, build)

\* ParManualEventReader::is_empty: len(events) == 0
ReaderIsEmpty(r) ==
    /\ ~panicked /\ NoSendInFlight
    /\ r \in Readers /\ view.reader # r
    /\ LET l == reader_len(readers[r].last_event_count, events_a, events_b)
       IN  \E build \in Builds : LenStep(r, "is_empty", l, l.unread = 0, build)

(* ---------------------------- specification ---------------------------- *)
Batches == UNION {[1..k -> Payloads] : k \in 0..MaxBatch}

Next ==
    \/ AddSlot
    \/ \E s \in Slots, e \in Payloads : Send(s, e)
    \/ \E s \in Slots, evs \in Batches : Extend(s, evs)
    \/ \E s \in Slots : ExtendNext(s)
    \/ \E s \in Slots : Push(s)
    \/ Update
    \/ UpdateDrain(Len(flatten(events_a)) + 1)
    \/ Clear
    \/ Drain
    \/ GetReader
    \/ GetReaderCurrent
    \/ \E r \in Readers : ReaderClear(r)
    \/ \E r \in Readers : ReadWithId(r)
    \/ IterNext
    \/ \E n \in 0..MaxEvents : IterNth(n)
    \/ IterLast
    \/ IterCount
    \/ IterDrop

\* update_drain with its iterator dropped after n polls, before it has returned None
UpdateDrainDropped(n) ==
    /\ n <= Len(flatten(events_a))
    /\ UpdateDrain(n)

NextDropped ==
    \/ Next
    \/ \E n \in 0..MaxEvents : UpdateDrainDropped(n)

\* sends in any interleaving; update, clear, drain, reader creation and reads only while
\* no send is in flight; every update_drain iterator is polled to its end
Spec == Init /\ [][Next]_vars

\* as Spec, and the caller of update_drain may drop the iterator at any point
SpecDropped == Init /\ [][NextDropped]_vars

\* number of readers of SpecCursors
NumCursors == 2
\* number of ids the counter may issue in SpecCursors
CursorEvents == 2

\* ParEvents::default() followed by NumCursors calls of get_reader
InitCursors ==
    /\ events_a = << <<>> >>
    /\ events_b = << <<>> >>
    /\ event_count = 0
    /\ in_flight = <<NoInstance>>
    /\ batch = << <<>> >>
    /\ readers = [r \in 1..NumCursors |-> [last_event_count |-> 0]]
    /\ view = NoView
    /\ ret = NoRet
    /\ panicked = FALSE
    /\ hist = [HistInit EXCEPT !.rd = [r \in 1..NumCursors |->
                  [born |-> 0, got |-> <<>>, fresh |-> FALSE, pace |-> "read"]]]
    /\ contains_resource = TRUE
    /\ first_systems = 0
    /\ plugins = 0
    /\ writers = <<>>
    /\ InitMods

\* the calls made on the readers and on the one slot of the buffers
NextCursors ==
    \/ \E s \in Slots, e \in Payloads : event_count < CursorEvents /\ Send(s, e)
    \/ \E s \in Slots : Push(s)
    \/ Update
    \/ \E n \in 0..MaxEvents : UpdateDrain(n)
    \/ Clear
    \/ \E r \in Readers : ReaderClear(r)
    \/ \E r \in Readers : ReadWithId(r)
    \/ \E r \in Readers : ReaderLen(r)
    \/ \E r \in Readers : ReaderIsEmpty(r)
    \/ IterNext
    \/ IterCount
    \/ IterDrop

\* two readers from the start over one slot, update_drain iterators dropped at any
\* point, and len / is_empty called between the other calls
SpecCursors == InitCursors /\ [][NextCursors]_vars

\* number of distinct event payloads in SpecBatch
NumBatchPayloads == 2

BatchPayloads == 1..NumBatchPayloads

\* the iterators handed to extend in SpecBatch
BatchInputs == UNION {[1..k -> BatchPayloads] : k \in 0..MaxBatch}

\* extend and send calls in any interleaving over payloads that can be told apart, with
\* one reader
NextBatch ==
    \/ AddSlot
    \/ \E s \in Slots, evs \in BatchInputs : Extend(s, evs)
    \/ \E s \in Slots : ExtendNext(s)
    \/ \E s \in Slots : Push(s)
    \/ \E s \in Slots, e \in BatchPayloads : Send(s, e)
    \/ Update
    \/ GetReader
    \/ \E r \in Readers : ReadWithId(r)
    \/ IterNext
    \/ IterDrop

SpecBatch == Init /\ [][NextBatch]_vars

\* sends on any slot step by step, and reads both in phases of their own and while a
\* send is in flight; a push and a live view are kept apart
NextRacing ==
    \/ AddSlot
    \/ \E s \in Slots, e \in Payloads : Send(s, e)
    \/ \E s \in Slots : NoViewAlive /\ Push(s)
    \/ Update
    \/ GetReader
    \/ \E r \in Readers : ReadWithId(r)
    \/ \E r \in Readers : ReadWithIdRacing(r)
    \/ IterNext
    \/ IterCount
    \/ IterDrop

SpecRacing == Init /\ [][NextRacing]_vars

(* --------------------------- plugin and writers ------------------------ *)
\* number of ParEventsPlugin<E> values added to the App
MaxPlugins == 2
\* number of systems with a ParEventWriter<E> parameter
MaxWriters == 2
\* number of ids the counter may issue in SpecApp
AppEvents == 2

\* App::new(): the World holds no ParEvents<E> resource (the buffers and the counter
\* stand at the values ParEvents::default() will give them), no plugin was added, the
\* First schedule holds no update system, no system state was initialised
InitApp ==
    /\ events_a = << <<>> >>
    /\ events_b = << <<>> >>
    /\ event_count = 0
    /\ in_flight = <<NoInstance>>
    /\ batch = << <<>> >>
    /\ readers = <<>>
    /\ view = NoView
    /\ ret = NoRet
    /\ panicked = FALSE
    /\ hist = HistInit
    /\ contains_resource = FALSE
    /\ first_systems = 0
    /\ plugins = 0
    /\ writers = <<>>
    /\ InitMods

\* init_resource::<ParEvents<E>>() by the code of the App itself, with no resource yet
InitResource ==
    /\ ~panicked /\ ~contains_resource
    /\ contains_resource' = TRUE
    /\ ret' = NoRet
    /\ UNCHANGED <<events_a, events_b, event_count, in_flight, batch, readers, view,
                   panicked, hist, first_systems, plugins, writers>>
    /\ UNCHANGED modvars

\* Plugin::build of ParEventsPlugin<E> (is_unique is false: it may be added again)
Build ==
    /\ ~panicked /\ Quiescent
    /\ plugins < MaxPlugins
    /\ plugins' = plugins + 1
    /\ IF contains_resource
       THEN UNCHANGED <<contains_resource, first_systems>>
       ELSE /\ contains_resource' = TRUE
            /\ first_systems' = first_systems + 1
    /\ ret' = NoRet
    /\ UNCHANGED <<events_a, events_b, event_count, in_flight, batch, readers, view,
                   panicked, hist, writers>>
    /\ UNCHANGED modvars

\* InitState with the pushes on the two buffers left out
InitState_no_push ==
    /\ ~panicked /\ Quiescent
    /\ Len(writers) < MaxWriters
    /\ contains_resource' = TRUE
    /\ writers' = Append(writers, [slot_index |-> Len(events_a)])
    /\ ret' = NoRet
    /\ UNCHANGED <<events_a, events_b, in_flight, batch, event_count, readers, view,
                   panicked, hist, first_systems, plugins>>
    /\ UNCHANGED modvars

\* SystemParam::init_state of ParEventWriter<E>: init_resource, then a slot of its own
InitState ==
    /\ ~panicked /\ Quiescent
    /\ Len(writers) < MaxWriters
    /\ contains_resource' = TRUE
    /\ writers' = Append(writers, [slot_index |-> Len(events_a)])
    /\ events_a' = Append(events_a, <<>>)
    /\ events_b' = Append(events_b, <<>>)
    /\ in_flight' = Append(in_flight, NoInstance)
    /\ batch' = Append(batch, <<>>)
    /\ ret' = NoRet
    /\ UNCHANGED <<event_count, readers, view, panicked, hist, first_systems, plugins>>
    /\ UNCHANGED modvars

\* n calls of ParEvents::update in a row
RECURSIVE updates(_, _, _)
updates(n, a, b) ==
    IF n = 0 THEN [a |-> a, b |-> b]
    ELSE LET u == update(a, b) IN updates(n - 1, u.a, u.b)

\* one run of the First schedule of an App tick: every event_update_system::<E> in it
\* calls ParEvents::update; the step returns how many did
RunFirst ==
    /\ ~panicked /\ Quiescent
    /\ first_systems >= 1 => contains_resource
    /\ LET u == updates(first_systems, events_a, events_b)
       IN  /\ events_a' = u.a
           /\ events_b' = u.b
    /\ hist' = IF first_systems = 0 THEN hist ELSE HistUpdate(FALSE)
    /\ ret' = [op |-> "first", val |-> <<first_systems>>]
    /\ UNCHANGED <<event_count, in_flight, batch, readers, view, panicked>>
    /\ UNCHANGED <<appvars, modvars>>

\* ParEvents::len: the instances stored in the slots of both buffers
len(a, b) == Len(flatten(a)) + Len(flatten(b))

\* ParEvents::is_empty
is_empty(a, b) == len(a, b) = 0

\* event_update_condition::<E>, evaluated between the systems of a tick: it returns
\* what is_empty returns
EventUpdateCondition ==
    /\ ~panicked /\ Quiescent
    /\ contains_resource
    /\ ret' = [op |-> "condition", val |-> <<is_empty(events_a, events_b)>>]
    /\ UNCHANGED <<events_a, events_b, event_count, in_flight, batch, readers, view,
                   panicked, hist>>
    /\ UNCHANGED <<appvars, modvars>>

\* the App is built in any order (resource, plugins, writer systems, add_slot), its ticks
\* run the First schedule, and the writers and the caller of slot 0 send
NextApp ==
    \/ InitResource
    \/ Build
    \/ InitState
    \/ RunFirst
    \/ EventUpdateCondition
    \/ contains_resource /\ AddSlot
    \/ \E w \in 1..Len(writers), e \in Payloads :
          event_count < AppEvents /\ Send(writers[w].slot_index, e)
    \/ \E e \in Payloads : contains_resource /\ event_count < AppEvents /\ Send(0, e)
    \/ \E s \in Slots : Push(s)

SpecApp == InitApp /\ [][NextApp]_vars

\* the slot indices callers pass to send and extend: the slots there can be, and one
\* index (MaxSlots) that add_slot never returns
LaneInputs == 0..MaxSlots

\* send and extend calls with any index, valid or not, on slots added at any time
NextLanes ==
    \/ AddSlot
    \/ \E s \in LaneInputs, e \in Payloads : Send(s, e)
    \/ \E s \in LaneInputs, evs \in Batches : Extend(s, evs)
    \/ \E s \in Slots : ExtendNext(s)
    \/ \E s \in Slots : Push(s)
    \/ Update
    \/ GetReader
    \/ \E r \in Readers : ReadWithId(r)
    \/ IterNext
    \/ IterDrop

SpecLanes == Init /\ [][NextLanes]_vars

(* ------------------------------ TimeoutMap ----------------------------- *)
\* the ids of bots, sessions and users that targets are made of
TmIds == 1
\* the timeout durations handed to insert
NumDurations == 2
\* the last instant of the clock
MaxTime == 3
\* longest collection handed to insert_many and remove_many
MaxMany == 2

Durations == 1..NumDurations

\* wire::Target: Bot(id), Anon(session), Auth(AuthTarget::All(id)) with session 0,
\* Auth(AuthTarget::Specific(id, session)) with a session >= 1
Target(kind, id, session) == [kind |-> kind, id |-> id, session |-> session]

TargetInputs ==
    UNION {{Target("Bot", i, 0), Target("Anon", 0, i), Target("Auth", i, 0),
            Target("Auth", i, i)} : i \in 1..TmIds}

\* the collections handed to insert_many and remove_many
TargetLists == UNION {[1..n -> TargetInputs] : n \in 0..MaxMany}

\* TimeoutMap::transform_target
transform_target(target) ==
    IF target.kind = "Auth" THEN Target("Auth", target.id, 0) ELSE target

\* a map with the key k bound to v (HashMap::insert)
map_insert(f, k, v) == [x \in DOMAIN f \cup {k} |-> IF x = k THEN v ELSE f[x]]

\* a map without the key k (HashMap::remove)
map_remove(f, k) == [x \in DOMAIN f \ {k} |-> f[x]]

\* Vec::remove(idx), idx counted from 0
vec_remove(q, idx) == SubSeq(q, 1, idx) \o SubSeq(q, idx + 2, Len(q))

\* the number of times x stands in q from the 0-based index idx on
occurrences_from(q, idx, x) == Cardinality({i \in (idx + 1)..Len(q) : q[i] = x})

\* the value of the TimeoutMap resource, and whether a call on it has panicked
TmValue == [timeouts |-> timeouts, queues |-> queues, panic |-> FALSE]

\* the places of the queues: <<duration, 0-based index>>
Queued(m) == UNION {{<<d, i - 1>> : i \in 1..Len(m.queues[d])} : d \in DOMAIN m.queues}

\* TimeoutMap::check_invariants (a debug build: a failed debug_assert panics)
check_invariants(m) ==
    /\ \A p1, p2 \in Queued(m) :
          m.queues[p1[1]][p1[2] + 1] = m.queues[p2[1]][p2[2] + 1] => p1 = p2
    /\ \A pl \in Queued(m) :
          LET target == m.queues[pl[1]][pl[2] + 1]
          IN  /\ target \in DOMAIN m.timeouts
              /\ m.timeouts[target].duration = pl[1]
              /\ m.timeouts[target].idx = pl[2]
    /\ Cardinality(DOMAIN m.timeouts) = Cardinality(Queued(m))

\* the end of insert and remove: check_invariants
checked(m) == [m EXCEPT !.panic = @ \/ ~check_invariants(m)]

\* TimeoutMap::remove: the entry leaves timeouts, the target leaves its queue, and the
\* targets behind it get their index decremented.  unwrap on a missing queue or entry,
\* Vec::remove past the end and an index decremented below 0 panic.
remove(m, tgt) ==
    LET target == transform_target(tgt)
    IN  IF m.panic \/ target \notin DOMAIN m.timeouts THEN checked(m)
        ELSE LET duration == m.timeouts[target].duration
                 idx == m.timeouts[target].idx
                 removed == map_remove(m.timeouts, target)
             IN  IF duration \notin DOMAIN m.queues \/ idx >= Len(m.queues[duration])
                 THEN [m EXCEPT !.timeouts = removed, !.panic = TRUE]
                 ELSE LET queue == vec_remove(m.queues[duration], idx)
                          behind == {queue[i] : i \in (idx + 1)..Len(queue)}
                          ok == \A x \in behind :
                                   /\ x \in DOMAIN removed
                                   /\ removed[x].idx >= occurrences_from(queue, idx, x)
                      IN  IF ~ok
                          THEN [timeouts |-> removed,
                                queues |-> map_insert(m.queues, duration, queue),
                                panic |-> TRUE]
                          ELSE checked(
                               [timeouts |-> [x \in DOMAIN removed |->
                                     IF x \in behind
                                     THEN [removed[x] EXCEPT
                                             !.idx = @ - occurrences_from(queue, idx, x)]
                                     ELSE removed[x]],
                                queues |-> map_insert(m.queues, duration, queue),
                                panic |-> FALSE])

\* insert with the removal of the entry the target already has left out
insert_no_remove(m, tgt, duration, now) ==
    LET target == transform_target(tgt)
        queue == IF duration \in DOMAIN m.queues THEN m.queues[duration] ELSE <<>>
    IN  checked([timeouts |-> map_insert(m.timeouts, target,
                        [duration |-> duration, instant |-> now, idx |-> Len(queue)]),
                 queues |-> map_insert(m.queues, duration, Append(queue, target)),
                 panic |-> m.panic])

\* TimeoutMap::insert: a target that has an entry is removed first; then the target goes
\* to the back of the queue of its duration, with that queue's length as its index
insert(m, tgt, duration, now) ==
    LET target == transform_target(tgt)
        m1 == IF target \in DOMAIN m.timeouts THEN remove(m, target) ELSE m
        queue == IF duration \in DOMAIN m1.queues THEN m1.queues[duration] ELSE <<>>
    IN  IF m1.panic THEN m1
        ELSE checked([timeouts |-> map_insert(m1.timeouts, target,
                          [duration |-> duration, instant |-> now, idx |-> Len(queue)]),
                      queues |-> map_insert(m1.queues, duration, Append(queue, target)),
                      panic |-> FALSE])

\* TimeoutMap::insert_many: one insert per target; nows[i] is what Instant::now()
\* returns in the i-th insert
RECURSIVE insert_many(_, _, _, _)
insert_many(m, targets, duration, nows) ==
    IF targets = <<>> \/ m.panic THEN m
    ELSE insert_many(insert(m, Head(targets), duration, Head(nows)),
                     Tail(targets), duration, Tail(nows))

\* TimeoutMap::remove_many: one remove per target
RECURSIVE remove_many(_, _)
remove_many(m, targets) ==
    IF targets = <<>> \/ m.panic THEN m
    ELSE remove_many(remove(m, Head(targets)), Tail(targets))

\* Instant::saturating_duration_since
saturating_duration_since(now, instant) == IF now > instant THEN now - instant ELSE 0

\* not_expired with a target counted as expired as soon as its duration has elapsed
not_expired_strict(entry, now) ==
    saturating_duration_since(now, entry.instant) < entry.duration

\* the test of process_timeouts for a target that has not expired
not_expired(entry, now) ==
    saturating_duration_since(now, entry.instant) <= entry.duration

\* Iterator::position over the queue: the 0-based index of the first target that has
\* not expired, or the length of the queue
RECURSIVE position(_, _, _)
position(queue, tm, now) ==
    IF queue = <<>> THEN 0
    ELSE IF not_expired(tm[Head(queue)], now) THEN 0
    ELSE 1 + position(Tail(queue), tm, now)

\* the body of the loop of process_timeouts for the queue of one duration: st is
\* [timeouts, queues, panic, emitted]
process_queue(st, duration, now) ==
    LET queue == st.queues[duration]
    IN  IF st.panic \/ \E i \in 1..Len(queue) : queue[i] \notin DOMAIN st.timeouts
        THEN [st EXCEPT !.panic = TRUE]
        ELSE LET idx == position(queue, st.timeouts, now)
                 rest == SubSeq(queue, idx + 1, Len(queue))
                 drained == SubSeq(queue, 1, idx)
                 kept == {rest[i] : i \in 1..Len(rest)}
                 gone == {drained[i] : i \in 1..Len(drained)}
             IN  IF \E x \in kept : st.timeouts[x].idx < idx * occurrences_from(rest, 0, x)
                 THEN [st EXCEPT !.panic = TRUE]
                 ELSE [timeouts |-> [x \in DOMAIN st.timeouts \ gone |->
                            IF x \in kept
                            THEN [st.timeouts[x] EXCEPT
                                    !.idx = @ - idx * occurrences_from(rest, 0, x)]
                            ELSE st.timeouts[x]],
                       queues |-> map_insert(st.queues, duration, rest),
                       panic |-> FALSE,
                       emitted |-> st.emitted \o drained]

\* TimeoutMap::process_timeouts over the queues in the order the HashMap yields them
RECURSIVE process_timeouts(_, _, _)
process_timeouts(st, order, now) ==
    IF order = <<>> THEN st
    ELSE process_timeouts(process_queue(st, Head(order), now), Tail(order), now)

\* the orders in which a HashMap may yield the keys in S
Orders(S) ==
    {o \in [1..Cardinality(S) -> S] : \A i, j \in 1..Cardinality(S) : o[i] = o[j] => i = j}

\* the history of the awaited targets, in the order of their latest inserts: a remove
\* and an expiry take the target out, an insert puts it at the end with its instant and
\* duration
hist_remove(h, tgts) ==
    LET Awaited(x) == x.target \notin {transform_target(t) : t \in tgts}
    IN  SelectSeq(h, Awaited)

hist_insert(h, tgt, duration, now) ==
    Append(hist_remove(h, {tgt}),
           [target |-> transform_target(tgt), at |-> now, duration |-> duration])

RECURSIVE hist_insert_many(_, _, _, _)
hist_insert_many(h, targets, duration, nows) ==
    IF targets = <<>> THEN h
    ELSE hist_insert_many(hist_insert(h, Head(targets), duration, Head(nows)),
                          Tail(targets), duration, Tail(nows))

\* the clock moves on between two calls
Tick ==
    /\ ~panicked
    /\ clock < MaxTime
    /\ clock' = clock + 1
    /\ UNCHANGED <<timeouts, queues, inserted, ret, logvars, appvars, connvars, bridgevars>>

\* the frame of a TimeoutMap call that leaves m behind
TmCall(m) ==
    /\ timeouts' = m.timeouts
    /\ queues' = m.queues
    /\ panicked' = m.panic
    /\ UNCHANGED <<events_a, events_b, event_count, in_flight, batch, readers, view, hist>>
    /\ UNCHANGED <<appvars, connvars, bridgevars>>

TmInsert(target, duration) ==
    /\ ~panicked
    /\ TmCall(insert(TmValue, target, duration, clock))
    /\ inserted' = hist_insert(inserted, target, duration, clock)
    /\ ret' = NoRet
    /\ UNCHANGED clock

\* insert_many: the clock may move on between the inserts
TmInsertMany(targets, duration, nows) ==
    /\ ~panicked
    /\ Len(nows) = Len(targets)
    /\ \A i \in 1..Len(nows) : nows[i] >= (IF i = 1 THEN clock ELSE nows[i - 1])
    /\ TmCall(insert_many(TmValue, targets, duration, nows))
    /\ inserted' = hist_insert_many(inserted, targets, duration, nows)
    /\ clock' = IF nows = <<>> THEN clock ELSE nows[Len(nows)]
    /\ ret' = NoRet

TmRemove(target) ==
    /\ ~panicked
    /\ TmCall(remove(TmValue, target))
    /\ inserted' = hist_remove(inserted, {target})
    /\ ret' = NoRet
    /\ UNCHANGED clock

TmRemoveMany(targets) ==
    /\ ~panicked
    /\ TmCall(remove_many(TmValue, targets))
    /\ inserted' = hist_remove(inserted, {targets[i] : i \in 1..Len(targets)})
    /\ ret' = NoRet
    /\ UNCHANGED clock

\* the process_timeouts system; the step returns the ExpiredTimeout events it has sent
ProcessTimeouts ==
    /\ ~panicked
    /\ \E order \in Orders(DOMAIN queues) :
          LET st == process_timeouts([timeouts |-> timeouts, queues |-> queues, panic |-> FALSE,
                                       emitted |-> <<>>], order, clock)
          IN  /\ TmCall(st)
              /\ ret' = [op |-> "process_timeouts", val |-> st.emitted]
              /\ inserted' = hist_remove(inserted, {st.emitted[i] : i \in 1..Len(st.emitted)})
    /\ UNCHANGED clock

NextTimeouts ==
    \/ Tick
    \/ \E t \in TargetInputs, d \in Durations : TmInsert(t, d)
    \/ \E ts \in TargetLists, d \in Durations :
          \E nows \in [1..Len(ts) -> clock..MaxTime] : TmInsertMany(ts, d, nows)
    \/ \E t \in TargetInputs : TmRemove(t)
    \/ \E ts \in TargetLists : TmRemoveMany(ts)
    \/ ProcessTimeouts

SpecTimeouts == Init /\ [][NextTimeouts]_vars

(* ---------------------------- UserSessionsMap -------------------------- *)
\* the user ids (wire::ANON_USER_ID is user 0)
NumUsers == 1
\* the session ids
NumSessions == 2
\* longest list of sessions of one user
MaxSessions == 3

ANON_USER_ID == 0
UserIds == 0..NumUsers
SessionIds == 1..NumSessions

\* usize::MAX, what 0 - 1 wraps to in a build without overflow checks
UsizeMax == -1

\* Vec::retain(|session| session != &session_id)
retain(sessions, session_id) ==
    LET Other(session) == session # session_id
    IN  SelectSeq(sessions, Other)

\* UserSessionsMap::insert: [map, num_sessions]
usm_insert(map, user_id, session_id) ==
    IF user_id \in DOMAIN map
    THEN [map |-> map_insert(map, user_id, Append(map[user_id], session_id)),
          num_sessions |-> Len(map[user_id]) + 1]
    ELSE [map |-> map_insert(map, user_id, <<session_id>>), num_sessions |-> 1]

\* UserSessionsMap::remove: [map, num_sessions]; the returned value is len - 1, where
\* len is the length of the user's list before the call
usm_remove(map, user_id, session_id) ==
    IF user_id \in DOMAIN map
    THEN LET n == Len(map[user_id])
         IN  [map |-> IF n <= 1 THEN map_remove(map, user_id)
                      ELSE map_insert(map, user_id, retain(map[user_id], session_id)),
              num_sessions |-> n - 1]
    ELSE [map |-> map, num_sessions |-> 0]

\* the number of sessions the map holds for a user
sessions_of(map, user_id) == IF user_id \in DOMAIN map THEN Len(map[user_id]) ELSE 0

\* a call of UserSessionsMap::insert by any code that holds the resource
UsmInsert(user_id, session_id) ==
    /\ ~panicked
    /\ sessions_of(user_sessions_map, user_id) < MaxSessions
    /\ LET r == usm_insert(user_sessions_map, user_id, session_id)
       IN  /\ user_sessions_map' = r.map
           /\ ret' = [op |-> "usm_insert", val |-> <<user_id, r.num_sessions>>]
    /\ UNCHANGED <<logvars, appvars, tmvars, conns, bridgevars>>

\* a call of UserSessionsMap::remove by any code that holds the resource; len - 1 with
\* len = 0 (a list emptied by retain) panics in a build with overflow checks and wraps
\* in one without
UsmRemove(user_id, session_id) ==
    /\ ~panicked
    /\ LET r == usm_remove(user_sessions_map, user_id, session_id)
       IN  /\ user_sessions_map' = r.map
           /\ IF r.num_sessions >= 0
              THEN /\ ret' = [op |-> "usm_remove", val |-> <<user_id, r.num_sessions>>]
                   /\ UNCHANGED panicked
              ELSE \/ /\ ret' = [op |-> "usm_remove", val |-> <<user_id, UsizeMax>>]
                      /\ UNCHANGED panicked
                   \/ /\ ret' = NoRet
                      /\ panicked' = TRUE
    /\ UNCHANGED <<events_a, events_b, event_count, in_flight, batch, readers, view, hist>>
    /\ UNCHANGED <<appvars, tmvars, conns, bridgevars>>

NextSessions ==
    \/ \E u \in UserIds, s \in SessionIds : UsmInsert(u, s)
    \/ \E u \in UserIds, s \in SessionIds : UsmRemove(u, s)

SpecSessions == Init /\ [][NextSessions]_vars

(* ------------------------------ connections ---------------------------- *)
\* ExternalReq<TReq>: what the external system sends on a connection's channel
ExternalReqs ==
    {[kind |-> "UserAction", user_id |-> 0], [kind |-> "Disconnected", user_id |-> 0],
     [kind |-> "Unauthenticated", user_id |-> 0]}
    \cup {[kind |-> "Authenticated", user_id |-> u] : u \in UserIds}

\* messages a connection's channel holds at most
ChannelCap == 1

\* the state a run of receive_messages works on, and what it has done so far: the
\* Disconnected events sent (each with the branch that sent it and the number of
\* sessions the map held for the user right after the removal) and the entities
\* whose despawn is queued in Commands
RecvStart ==
    [map |-> user_sessions_map, conns |-> conns, events |-> <<>>, despawn |-> {},
     overflow |-> FALSE]

disconnected(st, map, user_id, session_id, cause) ==
    Append(st.events, [user_id |-> user_id, session_id |-> session_id, cause |-> cause,
                       left |-> sessions_of(map, user_id)])

\* the match arm of TryRecvError::Disconnected: remove, send Disconnected, despawn
closed_arm(st, session_id) ==
    LET user_id == st.conns[session_id].user_id
        r == usm_remove(st.map, user_id, session_id)
    IN  [st EXCEPT !.map = r.map,
                   !.events = disconnected(st, r.map, user_id, session_id, "closed"),
                   !.despawn = @ \cup {session_id},
                   !.overflow = @ \/ r.num_sessions < 0]

\* the body of the loop of receive_messages for one entity of the query
receive_message(st, session_id) ==
    LET conn == st.conns[session_id]
        user_id == conn.user_id
        r == usm_remove(st.map, user_id, session_id)
    IN  IF conn.rx # <<>>
        THEN LET msg == Head(conn.rx)
                 popped == [st EXCEPT !.conns[session_id].rx = Tail(@)]
             IN  CASE msg.kind = "UserAction" -> popped
                   [] msg.kind = "Disconnected" ->
                        [popped EXCEPT
                           !.map = r.map,
                           !.events = IF r.num_sessions = 0
                                      THEN disconnected(st, r.map, user_id, session_id,
                                                        "Disconnected")
                                      ELSE @,
                           !.despawn = @ \cup {session_id},
                           !.overflow = @ \/ r.num_sessions < 0]
                   [] msg.kind = "Authenticated" ->
                        IF user_id = msg.user_id THEN popped
                        ELSE [popped EXCEPT
                                !.map = IF msg.user_id \in DOMAIN r.map
                                        THEN map_insert(r.map, msg.user_id,
                                                 Append(r.map[msg.user_id], session_id))
                                        ELSE usm_insert(r.map, msg.user_id, session_id).map,
                                !.conns[session_id].user_id = msg.user_id,
                                !.overflow = @ \/ r.num_sessions < 0]
                   [] msg.kind = "Unauthenticated" ->
                        [popped EXCEPT
                           !.map = usm_insert(r.map, ANON_USER_ID, session_id).map,
                           !.events = IF r.num_sessions = 0
                                      THEN disconnected(st, r.map, user_id, session_id,
                                                        "Unauthenticated")
                                      ELSE @,
                           !.conns[session_id].user_id = ANON_USER_ID,
                           !.overflow = @ \/ r.num_sessions < 0]
        ELSE IF conn.closed THEN closed_arm(st, session_id)
        ELSE st

\* receive_messages over the entities in the order the query yields them
RECURSIVE receive_messages(_, _)
receive_messages(st, order) ==
    IF order = <<>> THEN st
    ELSE receive_messages(receive_message(st, Head(order)), Tail(order))

\* accept_connections with one connection pending on bridge.new_conns: the spawned
\* entity's index is the session id, the session is recorded for the user, and the
\* next try_recv reports Empty
AcceptConnections(user_id, session_id) ==
    /\ ~panicked
    /\ session_id \notin DOMAIN conns
    /\ sessions_of(user_sessions_map, user_id) < MaxSessions
    /\ conns' = map_insert(conns, session_id,
                           [user_id |-> user_id, rx |-> <<>>, closed |-> FALSE])
    /\ user_sessions_map' =
          IF user_id \in DOMAIN user_sessions_map
          THEN map_insert(user_sessions_map, user_id,
                          Append(user_sessions_map[user_id], session_id))
          ELSE usm_insert(user_sessions_map, user_id, session_id).map
    /\ ret' = NoRet
    /\ UNCHANGED <<logvars, appvars, tmvars, bridgevars>>

\* the external system sends a request on the channel of a connection
ExternalSend(session_id, msg) ==
    /\ ~panicked
    /\ session_id \in DOMAIN conns
    /\ ~conns[session_id].closed
    /\ Len(conns[session_id].rx) < ChannelCap
    /\ conns' = [conns EXCEPT ![session_id].rx = Append(@, msg)]
    /\ ret' = NoRet
    /\ UNCHANGED <<logvars, appvars, tmvars, user_sessions_map, bridgevars>>

\* the external system drops the sender of a connection's channel
ExternalClose(session_id) ==
    /\ ~panicked
    /\ session_id \in DOMAIN conns
    /\ ~conns[session_id].closed
    /\ conns' = [conns EXCEPT ![session_id].closed = TRUE]
    /\ ret' = NoRet
    /\ UNCHANGED <<logvars, appvars, tmvars, user_sessions_map, bridgevars>>

\* one run of the receive_messages system, and the despawns of its Commands; the step
\* returns the Disconnected events it has sent.  len - 1 below 0 in
\* UserSessionsMap::remove panics with overflow checks and wraps without.
ReceiveMessages ==
    /\ ~panicked
    /\ \E order \in Orders(DOMAIN conns) :
          LET st == receive_messages(RecvStart, order)
          IN  /\ user_sessions_map' = st.map
              /\ conns' = [s \in DOMAIN st.conns \ st.despawn |-> st.conns[s]]
              /\ ret' = [op |-> "receive_messages", val |-> st.events]
              /\ IF st.overflow THEN panicked' \in BOOLEAN ELSE UNCHANGED panicked
    /\ UNCHANGED <<events_a, events_b, event_count, in_flight, batch, readers, view, hist>>
    /\ UNCHANGED <<appvars, tmvars, bridgevars>>

NextConns ==
    \/ \E u \in UserIds, s \in SessionIds : AcceptConnections(u, s)
    \/ \E s \in SessionIds, msg \in ExternalReqs : ExternalSend(s, msg)
    \/ \E s \in SessionIds : ExternalClose(s)
    \/ ReceiveMessages

SpecConns == Init /\ [][NextConns]_vars

(* -------------------------------- bridge ------------------------------- *)
\* the distinct requests the external system sends on the bridge channel
NumMsgs == 2
\* messages the bridge channel holds at most
BridgeCap == 2

Msgs == 1..NumMsgs

\* where recv_msgs stands: not running; at the head of its loop; in a match arm with
\* what try_recv has returned
Idle == [at |-> "idle", msg |-> 0]
AtLoop == [at |-> "loop", msg |-> 0]
InArm(result, msg) == [at |-> result, msg |-> msg]

\* Receiver::try_recv: a queued message first; with no message queued, Disconnected when
\* every sender is dropped and Empty otherwise
try_recv(rx) ==
    IF rx.queue # <<>>
    THEN [result |-> "Ok", msg |-> Head(rx.queue), rx |-> [rx EXCEPT !.queue = Tail(@)]]
    ELSE [result |-> IF rx.closed THEN "Disconnected" ELSE "Empty", msg |-> 0, rx |-> rx]

\* the external system sends a request on the bridge channel
BridgeSend(msg) ==
    /\ ~panicked
    /\ ~msg_reader.closed
    /\ Len(msg_reader.queue) < BridgeCap
    /\ msg_reader' = [msg_reader EXCEPT !.queue = Append(@, msg)]
    /\ UNCHANGED <<pc, ret, logvars, appvars, tmvars, connvars>>

\* the external system drops the sender of the bridge channel
BridgeClose ==
    /\ ~panicked
    /\ ~msg_reader.closed
    /\ msg_reader' = [msg_reader EXCEPT !.closed = TRUE]
    /\ UNCHANGED <<pc, ret, logvars, appvars, tmvars, connvars>>

\* the First schedule runs recv_msgs: the system enters its loop
RecvMsgsStart ==
    /\ ~panicked
    /\ pc = Idle
    /\ pc' = AtLoop
    /\ ret' = NoRet
    /\ UNCHANGED <<msg_reader, logvars, appvars, tmvars, connvars>>

\* the head of the loop: match msg_reader.try_recv()
RecvMsgsTryRecv ==
    /\ ~panicked
    /\ pc = AtLoop
    /\ LET r == try_recv(msg_reader)
       IN  /\ msg_reader' = r.rx
           /\ pc' = InArm(r.result, r.msg)
    /\ UNCHANGED <<ret, logvars, appvars, tmvars, connvars>>

\* the match arms: Ok(msg) sends the message as one event, Empty does nothing,
\* Disconnected logs a warning; each arm ends the loop body, and the loop goes on
RecvMsgsArm ==
    /\ ~panicked
    /\ pc.at \in {"Ok", "Empty", "Disconnected"}
    /\ ret' = IF pc.at = "Ok" THEN [op |-> "recv_msgs", val |-> <<pc.msg>>] ELSE ret
    /\ pc' = AtLoop
    /\ UNCHANGED <<msg_reader, logvars, appvars, tmvars, connvars>>

\* the steps of the thread that runs recv_msgs
RecvMsgs == RecvMsgsStart \/ RecvMsgsTryRecv \/ RecvMsgsArm

NextBridge ==
    \/ \E msg \in Msgs : BridgeSend(msg)
    \/ BridgeClose
    \/ RecvMsgsStart
    \/ RecvMsgsTryRecv
    \/ RecvMsgsArm

\* the thread that runs the system is scheduled as long as it has a step to take
SpecBridge == Init /\ [][NextBridge]_vars /\ WF_vars(RecvMsgs)

(* -------------------------------- claims ------------------------------- *)
\* the stored instances of both buffers and all slots, in id order
Stored == collect_sorted(events_a, events_b)

\* the sequence 0, 1, ..., n - 1
FirstIds(n) == [i \in 1..n |-> i - 1]

\* ids has no element twice
NoRepeat(ids) == \A i, j \in 1..Len(ids) : i # j => ids[i] # ids[j]

\* the instances of a and b and the ones in flight f
Instances(a, b, f) ==
    flatten(a) \o flatten(b) \o SelectSeq(f, LAMBDA x : x # NoInstance)

\* the step is a call of a consuming method of the view after which its caller has seen
\* the end of the view
EndSeen ==
    /\ view # NoView
    /\ \/ ret'.op \in {"last", "count"}
       \/ ret'.op \in {"next", "nth"} /\ ret'.val = <<>>

\* the ids the step's call has passed on top of those the view had passed before
PassedAfter ==
    LET r == view.reader
    IN  hist.cur \o SubSeq(hist'.rd[r].got, Len(hist.rd[r].got) + 1, Len(hist'.rd[r].got))

\* C1: a reader created before any send that is never cleared and fully consumes a read
\* between every two consecutive updates (and no ParEvents::clear / drain removes
\* events) is passed the ids 0, 1, 2, ... in this order over its reads, none twice and
\* none skipped, and after a fully consumed read it has been passed every id issued.
C1_Premise(r) ==
    /\ hist.rd[r].born = 0
    /\ hist.rd[r].pace \in {"read", "due"}
    /\ hist.floor = 0

C1_ExactlyOnceInOrder ==
    \A r \in Readers :
        C1_Premise(r) =>
            /\ hist.rd[r].got = FirstIds(Len(hist.rd[r].got))
            /\ hist.rd[r].fresh => Len(hist.rd[r].got) = event_count

\* C1 witness: such a reader has read everything after an event went through two updates
C1_Witness ==
    \E r \in Readers :
        /\ C1_Premise(r) /\ hist.rd[r].fresh
        /\ Len(hist.rd[r].got) >= 2
        /\ hist.seen2 >= 1

\* C2: with sends on distinct slots interleaved step by step (fetch_add, then push), and
\* no update or clear, once no send is in flight the buffers hold every issued id exactly
\* once with the event it was sent with, and a reader created beforehand that then reads
\* to the end has been passed every issued id exactly once.
C2_FanIn ==
    (hist.seen1 = 0 /\ hist.floor = 0) =>
        /\ NoSendInFlight =>
              /\ IdSeq(Stored) = FirstIds(event_count)
              /\ EventsOf(Stored) = hist.issued
        /\ \A r \in Readers :
              (hist.rd[r].born = 0 /\ hist.rd[r].pace = "read" /\ hist.rd[r].fresh) =>
                  /\ Len(hist.rd[r].got) = event_count
                  /\ {hist.rd[r].got[i] : i \in 1..Len(hist.rd[r].got)}
                        = 0..(event_count - 1)

\* C2 witness: two slots' sends overlapped, each slot holds an instance, and the reader
\* created beforehand has read to the end
C2_Witness ==
    /\ hist.overlapped /\ hist.seen1 = 0 /\ hist.floor = 0
    /\ Len(events_b) >= 2 /\ events_b[1] # <<>> /\ events_b[2] # <<>>
    /\ \E r \in Readers :
          hist.rd[r].born = 0 /\ hist.rd[r].fresh /\ Len(hist.rd[r].got) = event_count

\* C3: in every step the counter does not decrease, every id that appears in a buffer or
\* in flight is at least the counter's value before the step and below its value after
\* it, every id present is below the counter, and no two instances share an id.
C3_Step ==
    LET before == IdsOf(Instances(events_a, events_b, in_flight))
        after == Instances(events_a', events_b', in_flight')
    IN  /\ event_count' >= event_count
        /\ \A id \in IdsOf(after) \ before : id >= event_count
        /\ \A id \in IdsOf(after) : id < event_count'
        /\ NoRepeat(IdSeq(after))

C3_IdsUniqueIncreasing == [][C3_Step]_vars

\* C3 witness: three ids were issued, some with overlapping sends, around an update and
\* a ParEvents::clear or drain, and an instance is stored
C3_Witness ==
    /\ hist.overlapped /\ hist.seen1 >= 1 /\ hist.floor >= 1
    /\ event_count >= 3 /\ Stored # <<>>

\* C4: an instance that two updates have followed is in neither buffer, so no view holds
\* it and, when every issued id is that old, ParEvents::is_empty is true.
C4_BoundedRetention ==
    /\ \A i \in 1..Len(Stored) : Age(Stored[i].id) <= 1
    /\ \A i \in 1..Len(view.event_iter) : Age(view.event_iter[i].id) <= 1
    /\ (NoSendInFlight /\ hist.seen2 = event_count) => ParEvents_is_empty

\* C4 witness: an event nobody read went through two updates, and a reader created from
\* the start then read to the end and was passed nothing
C4_Witness ==
    /\ hist.seen2 >= 1 /\ hist.floor = 0
    /\ \E r \in Readers :
          hist.rd[r].born = 0 /\ hist.rd[r].got = <<>> /\ hist.rd[r].fresh

\* C5: while no send is in flight, every issued id that at most one update has followed,
\* that no ParEvents::clear / drain has followed and that is not below a reader's
\* last_event_count is stored, and a read of that reader started now holds it.
C5_VisibleWithinWindow ==
    Quiescent =>
        \A r \in Readers : \A id \in 0..(event_count - 1) :
            (id >= readers[r].last_event_count /\ Age(id) <= 1 /\ id >= hist.floor) =>
                LET nv == new_view(readers[r].last_event_count, events_a, events_b,
                                   event_count)
                IN  /\ id \in IdsOf(Stored)
                    /\ ~nv.panic
                    /\ id \in IdsOf(nv.event_iter)

\* C6: an update_drain call whose iterator is polled to its end returns exactly the
\* instances issued between the last but one and the last update before it (those that no
\* ParEvents::clear / drain removed), each once, with the events they were sent with.
C6_Step ==
    ret'.op = "update_drain" =>
        /\ IdsOf(ret'.val) = {id \in 0..(event_count - 1) :
                                 hist.seen2 <= id /\ id < hist.seen1 /\ id >= hist.floor}
        /\ NoRepeat(IdSeq(ret'.val))
        /\ \A i \in 1..Len(ret'.val) : ret'.val[i].event = hist.issued[ret'.val[i].id + 1]

C6_RotationReturnsTwoCycleOld == [][C6_Step]_vars

\* C6 witness: an update_drain has just returned an instance
C6_Witness == ret.op = "update_drain" /\ ret.val # <<>>

\* C7: when update or update_drain has returned, every slot of events_b is empty.
C7_CurrentEmptyAfterRotate ==
    ret.op \in {"update", "update_drain"} =>
        \A s \in 1..Len(events_b) : events_b[s] = <<>>

\* C8: a read never panics, and the view it creates holds exactly the stored instances
\* whose id is at least the reader's last_event_count at the call, in id order.
C8_Step ==
    /\ ~panicked => ~panicked'
    /\ (view = NoView /\ view' # NoView) =>
          view'.event_iter =
              SelectSeq(Stored, LAMBDA x : x.id >= readers[view'.reader].last_event_count)

C8_ReadEqualsIdFilter == [][C8_Step]_vars

\* C9: a read by a reader whose last_event_count is below the oldest stored id does not
\* panic, sets last_event_count to that id and creates a view of all stored instances in
\* id order; a reader's last_event_count never decreases and every id a view passes is at
\* least the reader's last_event_count, so the ids skipped are never passed to it.
C9_Step ==
    /\ (/\ view = NoView /\ view' # NoView
        /\ Stored # <<>>
        /\ readers[view'.reader].last_event_count < Stored[1].id) =>
          /\ readers'[view'.reader].last_event_count = Stored[1].id
          /\ view'.event_iter = Stored
          /\ view'.unread = Len(Stored)
    /\ \A r \in Readers :
          (Quiescent /\ Stored # <<>> /\ readers[r].last_event_count < Stored[1].id) =>
              ~new_view(readers[r].last_event_count, events_a, events_b, event_count).panic
    /\ \A r \in 1..Len(readers) :
          /\ readers'[r].last_event_count >= readers[r].last_event_count
          /\ \A i \in (Len(hist.rd[r].got) + 1)..Len(hist'.rd[r].got) :
                hist'.rd[r].got[i] >= readers[r].last_event_count

C10_Step ==
    EndSeen =>
        LET last == readers'[view.reader].last_event_count
        IN  /\ last = IF PassedAfter # <<>>
                      THEN PassedAfter[Len(PassedAfter)] + 1
                      ELSE event_count
            /\ last = event_count

C10_FullReadAdvances == [][C10_Step]_vars

\* what a read of reader r started in this state gives, and what its len gives
ViewOf(r) == new_view(readers[r].last_event_count, events_a, events_b, event_count)
LenOf(r) == reader_len(readers[r].last_event_count, events_a, events_b)

\* C11: while no send is in flight and no view is alive, for every reader neither len nor
\* read panics, len returns the number of items of the view a read started now holds,
\* is_empty is true exactly when that number is 0, and once that view is consumed to its
\* end a second read holds no item.
C11_LenReadConsistent ==
    Quiescent =>
        \A r \in Readers :
            LET nv == ViewOf(r)
                consumed == iter_count([reader |-> r, event_iter |-> nv.event_iter,
                                        unread |-> nv.unread])
                second == new_view(nv.last_event_count + consumed.advance,
                                   events_a, events_b, event_count)
            IN  /\ ~LenOf(r).overflow /\ ~nv.panic
                /\ LenOf(r).unread = Len(nv.event_iter)
                /\ (LenOf(r).unread = 0) <=> (nv.event_iter = <<>>)
                /\ ~second.panic /\ second.event_iter = <<>>

\* C12: a len or is_empty call (also one that panics) changes no reader's
\* last_event_count, neither buffer, the counter nor the live view, so what a read of any
\* reader would give is the same after the call as before it; a call that returns,
\* returns the count (the emptiness) of some reader.
C12_Step ==
    ((ret'.op \in {"len", "is_empty"} /\ ret' # ret) \/ (panicked' /\ ~panicked)) =>
        /\ UNCHANGED <<readers, events_a, events_b, event_count, view>>
        /\ \A r \in Readers :
              new_view(readers'[r].last_event_count, events_a', events_b', event_count')
                  = ViewOf(r)
        /\ ret'.op \in {"len", "is_empty"} =>
              \E r \in Readers :
                  ret'.val = IF ret'.op = "len" THEN <<LenOf(r).unread>>
                             ELSE <<LenOf(r).unread = 0>>

C12_LenReadOnly == [][C12_Step]_vars

\* C12 witness: len has just returned the number of all stored instances for a reader
\* whose last_event_count is still below the oldest stored id
C12_Witness ==
    /\ ret.op = "len" /\ Stored # <<>> /\ ret.val = <<Len(Stored)>>
    /\ Stored[1].id >= 1
    /\ \A r \in Readers : readers[r].last_event_count < Stored[1].id

\* the readers whose last_event_count the step changes
Changed == {r \in Readers : readers'[r] # readers[r]}

\* C13: a clear of a reader sets its last_event_count to the counter; right after it,
\* whatever was pending and however the buffers were rotated, is_empty is true (len is 0
\* and does not overflow) and a read does not panic and holds no item.  A read of a
\* cleared reader holds every id issued since, as long as at most one update has followed
\* the id and no ParEvents::clear / drain has.
C13_Step ==
    /\ \A r \in Changed :
          (view = NoView /\ view' = NoView) =>
              LET l == reader_len(readers'[r].last_event_count, events_a', events_b')
                  nv == new_view(readers'[r].last_event_count, events_a', events_b',
                                 event_count')
              IN  /\ readers'[r].last_event_count = event_count'
                  /\ ~l.overflow /\ l.unread = 0
                  /\ ~nv.panic /\ nv.event_iter = <<>>
    /\ (view = NoView /\ view' # NoView /\ hist.rd[view'.reader].pace = "cleared") =>
          \A id \in 0..(event_count - 1) :
              (/\ id >= readers[view'.reader].last_event_count
               /\ Age(id) <= 1 /\ id >= hist.floor) => id \in IdsOf(view'.event_iter)

C13_ReaderClear == [][C13_Step]_vars

\* the step is a call on a reader: a read, a call on its view, a len, is_empty or clear
CursorCall ==
    \/ Changed # {}
    \/ view' # view
    \/ ret'.op \in {"len", "is_empty"} /\ ret' # ret
    \/ panicked' /\ ~panicked

\* C14: a call on a reader changes neither buffer nor the counter, changes the
\* last_event_count of no reader but the one it is called on, and leaves what a read of
\* every other reader would give as it was.
C14_Step ==
    /\ Cardinality(Changed) <= 1
    /\ view # NoView => Changed \subseteq {view.reader}
    /\ view' # NoView => Changed \subseteq {view'.reader}
    /\ CursorCall =>
          /\ UNCHANGED <<events_a, events_b, event_count>>
          /\ \A r \in Readers \ Changed :
                new_view(readers'[r].last_event_count, events_a', events_b', event_count')
                    = ViewOf(r)

C14_CursorsIndependent == [][C14_Step]_vars

\* C14 witness: one reader has read from the start, the other was cleared and has read
\* what came after; they stand at different ids and were passed different ids
C14_Witness ==
    \E r, q \in Readers :
        /\ r # q
        /\ hist.rd[r].pace # "cleared" /\ hist.rd[r].got # <<>>
        /\ hist.rd[q].pace = "cleared" /\ hist.rd[q].got # <<>>
        /\ hist.rd[r].got # hist.rd[q].got
        /\ readers[r].last_event_count # readers[q].last_event_count

\* the ids of got that are at least b
Since(got, b) == SelectSeq(got, LAMBDA id : id >= b)

\* the sequence b, b + 1, ..., n - 1
IdsFrom(b, n) == [i \in 1..(n - b) |-> b + i - 1]

\* C15: a new reader's last_event_count is 0 (get_reader) or the counter
\* (get_reader_current).  A read of a reader still at 0 holds every stored instance.  For
\* a reader at the counter right after its creation is_empty is true and a read holds no
\* item; a reader whose last_event_count is at least the counter's value at its creation
\* (as it is for a get_reader_current reader from its creation on) is passed no id below
\* that value, and after each fully consumed read, when it has read between every two
\* updates and no ParEvents::clear / drain came, it has been passed every id issued since
\* its creation.
C15_Step ==
    /\ Len(readers') > Len(readers) =>
          LET last == readers'[Len(readers')].last_event_count
              l == reader_len(last, events_a', events_b')
              nv == new_view(last, events_a', events_b', event_count')
          IN  /\ last \in {0, event_count}
              /\ last = event_count =>
                    /\ ~l.overflow /\ l.unread = 0
                    /\ ~nv.panic /\ nv.event_iter = <<>>
    /\ (view = NoView /\ view' # NoView /\ readers[view'.reader].last_event_count = 0) =>
          view'.event_iter = Stored
    /\ \A r \in Readers :
          readers[r].last_event_count >= hist.rd[r].born =>
              \A i \in (Len(hist.rd[r].got) + 1)..Len(hist'.rd[r].got) :
                  hist'.rd[r].got[i] >= hist.rd[r].born
    /\ (/\ EndSeen
        /\ hist'.rd[view.reader].pace = "read"
        /\ hist.floor <= hist.rd[view.reader].born) =>
          Since(hist'.rd[view.reader].got, hist.rd[view.reader].born)
              = IdsFrom(hist.rd[view.reader].born, event_count)

C15_ReaderCreation == [][C15_Step]_vars

\* ids increases strictly
Ascending(ids) == \A i \in 1..(Len(ids) - 1) : ids[i] < ids[i + 1]

\* C16: ParEvents::clear leaves every slot of both buffers empty: until the next id is
\* issued (the counter still is what it was at the clear) nothing is stored and a read of
\* any reader holds no item.  From then on (after a clear that followed a send) a read
\* does not panic and holds only ids issued since the clear that are not below the
\* reader's last_event_count, and every such id that at most one update has followed;
\* over its reads a reader is passed these ids in increasing order, and one that reads
\* between every two updates has been passed every one of them after each fully consumed
\* read, whatever it had left unread at the clear.
C16_LogClear ==
    /\ hist.floor = event_count =>
          /\ Stored = <<>>
          /\ view.event_iter = <<>>
          /\ Quiescent => \A r \in Readers : ~ViewOf(r).panic /\ ViewOf(r).event_iter = <<>>
    /\ (Quiescent /\ hist.floor >= 1) =>
          \A r \in Readers :
              /\ ~ViewOf(r).panic
              /\ IdsOf(ViewOf(r).event_iter)
                    \subseteq {id \in hist.floor..(event_count - 1) :
                                  id >= readers[r].last_event_count}
              /\ {id \in hist.floor..(event_count - 1) :
                      id >= readers[r].last_event_count /\ Age(id) <= 1}
                    \subseteq IdsOf(ViewOf(r).event_iter)
              /\ Ascending(IdSeq(ViewOf(r).event_iter))
    /\ \A r \in Readers :
          /\ Ascending(Since(hist.rd[r].got, hist.floor))
          /\ (/\ hist.floor >= 1
              /\ hist.rd[r].fresh /\ hist.rd[r].pace \in {"read", "due"}
              /\ hist.rd[r].born <= hist.floor) =>
                Since(hist.rd[r].got, hist.floor) = IdsFrom(hist.floor, event_count)

\* C17: a drain call returns the instances of every slot of both buffers, each once, in
\* increasing id order and with the events they were sent with, and leaves every slot of
\* both buffers empty, so that a read of any reader then holds no item.
C17_Step ==
    ret'.op = "drain" =>
        /\ Ascending(IdSeq(ret'.val))
        /\ Len(ret'.val) = ParEvents_len
        /\ IdsOf(ret'.val) = IdsOf(flatten(events_a)) \cup IdsOf(flatten(events_b))
        /\ \A i \in 1..Len(ret'.val) : ret'.val[i].event = hist.issued[ret'.val[i].id + 1]
        /\ \A s \in 1..Len(events_a') : events_a'[s] = <<>>
        /\ \A s \in 1..Len(events_b') : events_b'[s] = <<>>
        /\ \A r \in Readers :
              LET nv == new_view(readers'[r].last_event_count, events_a', events_b',
                                 event_count')
              IN  ~nv.panic /\ nv.event_iter = <<>>

C17_DrainReturnsAll == [][C17_Step]_vars

\* C17 witness: a drain has just returned an instance of the previous buffer and one of
\* the current buffer, with two slots in place and a reader that had not read them
C17_Witness ==
    /\ ret.op = "drain" /\ Len(events_b) >= 2 /\ hist.floor = event_count
    /\ \E i, j \in 1..Len(ret.val) :
          ret.val[i].id < hist.seen1 /\ ret.val[j].id >= hist.seen1
    /\ \E r \in Readers : hist.rd[r].got = <<>>

\* the events a running send or extend on slot s has not pushed yet, in the order it will
\* push them: the one in flight f[s + 1], then those still in the iterator b[s + 1]
Pending(f, b, s) ==
    (IF f[s + 1] # NoInstance THEN <<f[s + 1]>> ELSE <<>>)
        \o [i \in 1..Len(b[s + 1]) |-> [id |-> -1, event |-> b[s + 1][i]]]

\* C18: while an extend (or send) runs on a slot, the events of the slot followed by
\* the events the call has not pushed yet stay the same sequence, so the call appends one
\* instance per item in iteration order, and the call itself removes nothing; the ids of
\* a slot, the one in flight included, increase strictly; every view is in increasing id
\* order and holds the events as they were sent, so a reader is passed the events of an
\* extend call in the order of its iterator.
C18_Step ==
    /\ \A s \in Slots :
          /\ ~SlotIdle(s) =>
                EventsOf(events_b'[s + 1] \o Pending(in_flight', batch', s))
                    = EventsOf(events_b[s + 1] \o Pending(in_flight, batch, s))
          /\ (SlotIdle(s) /\ (in_flight'[s + 1] # NoInstance \/ batch'[s + 1] # <<>>)) =>
                events_b'[s + 1] = events_b[s + 1]
          /\ Ascending(IdSeq(events_b'[s + 1]
                               \o SelectSeq(<<in_flight'[s + 1]>>,
                                            LAMBDA x : x # NoInstance)))
    /\ Ascending(IdSeq(view'.event_iter))
    /\ \A i \in 1..Len(view'.event_iter) :
          view'.event_iter[i].event = hist'.issued[view'.event_iter[i].id + 1]

C18_ExtendKeepsOrder == [][C18_Step]_vars

\* C18 witness: an extend has pushed its first item and still holds its second, of another
\* payload, after a send on another slot overlapped
C18_Witness ==
    /\ hist.overlapped
    /\ \E s \in Slots :
          /\ batch[s + 1] # <<>> /\ in_flight[s + 1] = NoInstance
          /\ events_b[s + 1] # <<>>
          /\ events_b[s + 1][Len(events_b[s + 1])].event # Head(batch[s + 1])

\* C19: the ids an extend call gives to its items are consecutive: when the call pulls
\* its next item, the id it gets is one above the id of the item it pushed before, also
\* when sends on other slots run in between.
C19_Step ==
    \A s \in Slots :
        (/\ batch[s + 1] # <<>>
         /\ in_flight[s + 1] = NoInstance /\ in_flight'[s + 1] # NoInstance) =>
            in_flight'[s + 1].id = events_b[s + 1][Len(events_b[s + 1])].id + 1

C19_BatchIdsConsecutive == [][C19_Step]_vars

\* C20: both buffers hold the same number of slots, at least one (slot 0 exists from
\* construction); no step removes a slot; the only step that adds one is add_slot, which
\* appends one empty slot to each buffer, leaves the other slots as they are and returns
\* the number of slots there were before; an index add_slot has returned is a valid slot.
C20_Step ==
    /\ Len(events_a') = Len(events_b') /\ Len(events_a') >= 1
    /\ Len(events_a') >= Len(events_a)
    /\ Len(events_a') # Len(events_a) =>
          /\ ret' = [op |-> "add_slot", val |-> <<Len(events_a)>>]
          /\ events_a' = Append(events_a, <<>>)
          /\ events_b' = Append(events_b, <<>>)
    /\ (ret'.op = "add_slot" /\ ret' # ret) => Len(events_a') = Len(events_a) + 1
    /\ ret'.op = "add_slot" => ret'.val[1] \in 0..(Len(events_b') - 1)

C20_SlotsOnlyGrow == [][C20_Step]_vars

\* C20 witness: the slot add_slot returned index 1 for holds an instance in each buffer,
\* so it was sent to before and after an update
C20_Witness ==
    /\ Len(events_a) = 2 /\ Len(events_b) = 2
    /\ events_a[2] # <<>> /\ events_b[2] # <<>>

\* C21: a send or extend call with an index that is no slot panics and returns nothing:
\* a step that takes an id without building an instance for a slot is a panic, and the
\* step of a panic changes no slot of either buffer, puts no instance in flight and leaves
\* no item of a batch to be pushed; extend panics before it takes an id.  Every instance
\* in flight belongs to a slot of both buffers.
C21_Step ==
    /\ (event_count' # event_count /\ in_flight' = in_flight) => panicked'
    /\ (panicked' /\ ~panicked) =>
          /\ UNCHANGED <<events_a, events_b, in_flight, batch>>
          /\ ret' = NoRet
          /\ event_count' \in {event_count, event_count + 1}
    /\ panicked => UNCHANGED <<events_a, events_b, in_flight, batch, event_count>>
    /\ Len(in_flight') = Len(events_b') /\ Len(batch') = Len(events_a')

C21_InvalidSlotPanics == [][C21_Step]_vars

\* C21 witness: a send to a missing slot has panicked after it took an id, while the
\* instances sent before it are stored in both slots and no other send is in flight
C21_Witness ==
    /\ panicked /\ NoSendInFlight /\ hist.seen1 = 0
    /\ Len(events_b) = 2 /\ events_b[1] # <<>> /\ events_b[2] # <<>>
    /\ event_count = Len(Stored) + 1
    /\ Len(hist.issued) = event_count

\* C22: a send changes only the counter and its slot of events_b.  The step that takes
\* the id adds exactly one to the counter, puts the instance [id: the counter before, the
\* event] in flight on one slot and changes no buffer, no other slot's instance in flight,
\* no reader and no view; the step that pushes it appends exactly that instance at the
\* end of that slot of events_b and changes neither events_a, nor another slot, nor an
\* instance stored before, nor the counter, nor a reader.
C22_Step ==
    /\ event_count' # event_count =>
          /\ event_count' = event_count + 1
          /\ UNCHANGED <<events_a, events_b, readers, view>>
          /\ \E s \in Slots :
                /\ in_flight[s + 1] = NoInstance
                /\ in_flight'[s + 1].id = event_count
                /\ in_flight'[s + 1].event = hist'.issued[event_count + 1]
                /\ in_flight' = [in_flight EXCEPT ![s + 1] = in_flight'[s + 1]]
    /\ (\E s \in Slots : in_flight[s + 1] # NoInstance /\ in_flight'[s + 1] = NoInstance) =>
          /\ UNCHANGED <<events_a, event_count, readers, view, batch>>
          /\ \E s \in Slots :
                /\ in_flight' = [in_flight EXCEPT ![s + 1] = NoInstance]
                /\ events_b' = [events_b EXCEPT ![s + 1] = Append(@, in_flight[s + 1])]

C22_SendFrame == [][C22_Step]_vars

\* C22 witness: a send has just pushed its instance on slot 1 while events_a and slot 0
\* of events_b hold instances and a reader has moved on from 0
C22_Witness ==
    /\ Len(events_b) = 2 /\ NoSendInFlight
    /\ flatten(events_a) # <<>> /\ events_b[1] # <<>> /\ events_b[2] # <<>>
    /\ events_b[2][Len(events_b[2])].id = event_count - 1
    /\ \E r \in Readers : readers[r].last_event_count >= 1

\* C23: once a ParEventsPlugin<E> was added, every run of the First schedule calls
\* ParEvents::update exactly once: the buffers are swapped and the one that becomes
\* current is emptied; also when the plugin was added again, and when the resource was
\* there before the plugin was built.
C23_Step ==
    (ret'.op = "first" /\ plugins >= 1) =>
        /\ ret'.val = <<1>>
        /\ events_a' = events_b
        /\ events_b' = emptied(events_a)

C23_RotationOncePerTick == [][C23_Step]_vars

\* the slot indices of the writer system states
WriterSlots(ws) == {ws[w].slot_index : w \in 1..Len(ws)}

\* C25: the initialisation of a writer system state makes sure the resource is there and
\* gives the state a slot that was no slot before (so neither slot 0 nor an index add_slot
\* has returned) by appending one empty slot to each buffer; the writer states' slot
\* indices are pairwise distinct, never 0, and slots of both buffers; a state's index
\* never changes; add_slot never returns the index of a writer state; an instance in
\* flight or pushed by a writer goes to that writer's slot.
C25_Step ==
    /\ writers' # writers =>
          LET i == writers'[Len(writers')].slot_index
          IN  /\ writers' = Append(writers, [slot_index |-> i])
              /\ i = Len(events_a) /\ i >= 1 /\ i \notin Slots
              /\ i \notin WriterSlots(writers)
              /\ events_a' = Append(events_a, <<>>)
              /\ events_b' = Append(events_b, <<>>)
              /\ contains_resource'
    /\ \A w, v \in 1..Len(writers') :
          w # v => writers'[w].slot_index # writers'[v].slot_index
    /\ \A w \in 1..Len(writers') :
          /\ writers'[w].slot_index \in 1..(Len(events_a') - 1)
          /\ writers'[w].slot_index \in 1..(Len(events_b') - 1)
    /\ (Len(events_a') > Len(events_a) /\ writers' = writers) =>
          /\ ret'.op = "add_slot"
          /\ ret'.val[1] \notin WriterSlots(writers')

C25_WriterSlotsExclusive == [][C25_Step]_vars

\* C25 witness: two writer states with an add_slot between their initialisations, and
\* each writer's slot holds an instance
C25_Witness ==
    /\ Len(writers) = 2 /\ Len(events_b) = 4
    /\ writers[1].slot_index = 1 /\ writers[2].slot_index = 3
    /\ events_b[2] # <<>> /\ events_b[4] # <<>>

\* reader r can never be passed the stored instance of this id any more: it has not been
\* passed it, and its last_event_count is beyond the instance's place
Skipped(r, id) ==
    /\ id \in IdsOf(Stored)
    /\ \A i \in 1..Len(hist.rd[r].got) : hist.rd[r].got[i] # id
    /\ id < readers[r].last_event_count

\* C24: nothing keeps a read from starting while a send is between its fetch_add and its
\* push (ReadWithIdRacing is a step of the program), and as long as no read has started
\* that way, no reader is passed an id twice, no reader is beyond a stored id it was not
\* passed other than by the catch-up after two updates without a read, and a reader
\* from the start that reads between every two updates has, after a read to the end,
\* been passed the ids 0, 1, 2, ... up to the counter.
C24_NoLossWithoutRace ==
    ~hist.raced =>
        \A r \in Readers :
            /\ NoRepeat(hist.rd[r].got)
            /\ hist.rd[r].pace \in {"read", "due"} =>
                  \A id \in hist.rd[r].born..(event_count - 1) : ~Skipped(r, id)
            /\ (C1_Premise(r) /\ hist.rd[r].fresh) =>
                  hist.rd[r].got = FirstIds(event_count)

\* C24 witness: a read started between the fetch_add and the push of a send while the
\* send of a larger id on another slot was complete; now no send is in flight, no update
\* has been made, and the reader from the start has read to the end, was passed the
\* larger id and is beyond the stored smaller id, which it never was passed
C24_Witness ==
    /\ hist.raced /\ hist.overlapped /\ Quiescent /\ hist.seen1 = 0 /\ hist.floor = 0
    /\ \E r \in Readers :
          /\ hist.rd[r].born = 0 /\ hist.rd[r].fresh
          /\ \E id \in 0..(event_count - 1) :
                /\ Skipped(r, id)
                /\ \E i \in 1..Len(hist.rd[r].got) : hist.rd[r].got[i] > id
          /\ ViewOf(r).event_iter = <<>>

\* C26: whenever no send or extend is in flight, the ids of the instances stored in both
\* buffers are, if there are any, m, m + 1, ..., event_count - 1 for some m: no id is
\* missing between the oldest stored id and the counter, and none is stored twice.
C26_RetainedIdsContiguous ==
    (NoSendInFlight /\ Stored # <<>>) =>
        IdSeq(Stored) = IdsFrom(Stored[1].id, event_count)

\* C26 witness: after two updates, with no send in flight, both buffers hold instances
\* and the oldest stored id is not 0
C26_Witness ==
    /\ NoSendInFlight /\ hist.seen2 >= 1
    /\ flatten(events_a) # <<>> /\ flatten(events_b) # <<>>
    /\ Stored[1].id >= 1

\* C27: no step lowers a reader's last_event_count or leaves it above the counter, no
\* view's unread goes below 0, and whenever no send is in flight and no view is alive,
\* for every reader the skip count start_index of len and of read is at most the number
\* of stored instances: neither `event_iter.len() - start_index` nor the drain that
\* follows it in read goes out of bounds.
C27_Step ==
    /\ \A r \in Readers :
          /\ readers'[r].last_event_count >= readers[r].last_event_count
          /\ readers'[r].last_event_count <= event_count'
    /\ \A r \in 1..Len(readers') :
          /\ readers'[r].last_event_count <= event_count'
          /\ Quiescent' =>
                /\ ~reader_len(readers'[r].last_event_count, events_a', events_b').overflow
                /\ ~new_view(readers'[r].last_event_count, events_a', events_b',
                             event_count').panic
    /\ view'.unread >= 0
    /\ ~panicked'

C27_CursorBounds == [][C27_Step]_vars

\* s is t with one element put in at some place
OneMore(s, t) ==
    /\ Len(s) = Len(t) + 1
    /\ \E k \in 1..Len(s) :
          t = SubSeq(s, 1, k - 1) \o SubSeq(s, k + 1, Len(s))

\* C28: a next that returns an item adds exactly one to the reader's last_event_count
\* and takes exactly the head off the view.  While a view is alive and when it has just
\* gone (dropped after k items, or after none), a read of its reader started at that
\* point holds exactly the items the view still held, in the same order.  A push while no
\* view is alive adds exactly the pushed instance to what a read of any reader (that can
\* read) would hold, and a read's items are in increasing id order, so the events sent
\* since come after the ones left over.  Over the reads of a reader created by get_reader, with no
\* update and no ParEvents::clear / drain so far, however many items each read took: the
\* ids passed so far followed by the ids of a new view are 0, 1, ..., event_count - 1.
C28_Step ==
    /\ (ret'.op = "next" /\ ret'.val # <<>> /\ view # NoView /\ view' # NoView) =>
          /\ readers'[view.reader].last_event_count
                = readers[view.reader].last_event_count + 1
          /\ ret'.val = <<Head(view.event_iter)>>
          /\ view'.event_iter = Tail(view.event_iter)
    /\ view' # NoView =>
          LET nv == new_view(readers'[view'.reader].last_event_count, events_a', events_b',
                             event_count')
          IN  ~nv.panic /\ nv.event_iter = view'.event_iter
    /\ (view # NoView /\ view' = NoView /\ ret' = NoRet) =>
          LET nv == new_view(readers'[view.reader].last_event_count, events_a', events_b',
                             event_count')
          IN  ~nv.panic /\ nv.event_iter = view.event_iter
    /\ (/\ view = NoView /\ view' = NoView
        /\ \E s \in Slots : in_flight[s + 1] # NoInstance /\ in_flight'[s + 1] = NoInstance) =>
          \A r \in Readers :
              LET nv == new_view(readers'[r].last_event_count, events_a', events_b',
                                 event_count')
              IN  ~ViewOf(r).panic =>
                  /\ readers'[r] = readers[r]
                  /\ ~nv.panic
                  /\ OneMore(nv.event_iter, ViewOf(r).event_iter)
                  /\ Ascending(IdSeq(nv.event_iter))
    /\ (/\ view = NoView /\ view' # NoView
        /\ hist.seen1 = 0 /\ hist.floor = 0
        /\ readers[view'.reader].last_event_count = Len(hist.rd[view'.reader].got)) =>
          hist.rd[view'.reader].got \o IdSeq(view'.event_iter) = FirstIds(event_count)

C28_PartialReadKeepsRest == [][C28_Step]_vars

\* C28 witness: a reader created by get_reader after ids 0 and 1 were sent (so its first
\* view held both) took only id 0 and dropped the view; the view of its next read, just
\* created, holds ids 1 and 2
C28_Witness ==
    /\ view # NoView /\ hist.cur = <<>>
    /\ hist.rd[view.reader].born = 2 /\ hist.rd[view.reader].got = <<0>>
    /\ hist.seen1 = 0 /\ hist.floor = 0
    /\ IdSeq(view.event_iter) = <<1, 2>>

\* C29: the len of a view is the number of items it still holds: it starts at what the
\* reader's len returned in the state of the read, a next that returns an item lowers it
\* by exactly 1, an nth(n) that returns an item (the item at place n + 1) by exactly
\* n + 1, a next or nth that returns None leaves it at 0, and it is 0 when the view holds
\* nothing.
C29_Step ==
    /\ view' # NoView =>
          /\ iter_len(view') = Len(view'.event_iter)
          /\ view'.event_iter = <<>> => iter_len(view') = 0
    /\ (view = NoView /\ view' # NoView) =>
          LET l == reader_len(readers[view'.reader].last_event_count, events_a, events_b)
          IN  ~l.overflow /\ iter_len(view') = l.unread
    /\ (view # NoView /\ view' # NoView /\ ret'.op = "next") =>
          iter_len(view') = IF ret'.val # <<>> THEN iter_len(view) - 1 ELSE 0
    /\ (view # NoView /\ view' # NoView /\ ret'.op = "nth") =>
          IF ret'.val # <<>>
          THEN \E n \in 0..(Len(view.event_iter) - 1) :
                  /\ view.event_iter[n + 1] = ret'.val[1]
                  /\ iter_len(view') = iter_len(view) - (n + 1)
                  /\ Len(view'.event_iter) = Len(view.event_iter) - (n + 1)
          ELSE iter_len(view') = 0 /\ view'.event_iter = <<>>

C29_ViewLenExact == [][C29_Step]_vars

\* C29 witness: an nth call has returned the second of a view's three items, and the
\* view's len is 1
C29_Witness ==
    /\ view # NoView /\ ret.op = "nth" /\ ret.val # <<>>
    /\ Len(hist.cur) = 2 /\ ret.val[1].id = hist.cur[2]
    /\ iter_len(view) = 1 /\ Len(view.event_iter) = 1

\* C30: what update_drain returns is the start of the buffer it retires, slot after slot
\* in increasing slot index and each slot in the order of its pushes, and all of it when
\* the iterator is polled to its end; within every slot of that buffer the ids increase,
\* so the returned ids increase whenever only one slot held instances.
C30_Step ==
    ret'.op = "update_drain" =>
        /\ ret'.val = SubSeq(flatten(events_a), 1, Len(ret'.val))
        /\ ~hist'.undrained => ret'.val = flatten(events_a)
        /\ \A s \in 1..Len(events_a) : Ascending(IdSeq(events_a[s]))
        /\ Cardinality({s \in 1..Len(events_a) : events_a[s] # <<>>}) <= 1 =>
              Ascending(IdSeq(ret'.val))

C30_RetiredOrder == [][C30_Step]_vars

\* C30 witness: an update_drain has returned, from two slots, an instance of slot 0 before
\* an instance of slot 1 with a smaller id
C30_Witness ==
    /\ ret.op = "update_drain" /\ Len(ret.val) = 2
    /\ ret.val[1].id > ret.val[2].id
    /\ Len(events_b) = 2

\* C31: a send or extend call that fails because its index is no slot leaves the whole
\* log as it was, the counter included: the step of a panic changes neither buffer, no
\* instance in flight, no batch and not event_count
C31_Step ==
    (panicked' /\ ~panicked) =>
        UNCHANGED <<events_a, events_b, in_flight, batch, event_count>>

C31_RejectedSendUnchanged == [][C31_Step]_vars

\* C32: event_update_condition returns true exactly when the log holds an instance in
\* either buffer, and false when both buffers are empty
C32_Step ==
    ret'.op = "condition" =>
        ret'.val = <<flatten(events_a) # <<>> \/ flatten(events_b) # <<>> >>

C32_ConditionTrueWhenRetained == [][C32_Step]_vars

\* C33: after any sequence of insert, insert_many, remove, remove_many and
\* process_timeouts no debug assertion has failed, each target stands at most once in
\* all the queues, every queued target has an entry in timeouts whose duration is the
\* key of its queue and whose index is its place in that queue, and timeouts has as
\* many entries as there are queued targets
C33_TimeoutMapInvariants ==
    /\ ~panicked
    /\ \A d1, d2 \in DOMAIN queues :
          \A i \in 1..Len(queues[d1]), j \in 1..Len(queues[d2]) :
              queues[d1][i] = queues[d2][j] => (d1 = d2 /\ i = j)
    /\ \A d \in DOMAIN queues :
          \A i \in 1..Len(queues[d]) :
              /\ queues[d][i] \in DOMAIN timeouts
              /\ timeouts[queues[d][i]].duration = d
              /\ timeouts[queues[d][i]].idx = i - 1
    /\ \A t \in DOMAIN timeouts :
          \E d \in DOMAIN queues : \E i \in 1..Len(queues[d]) : queues[d][i] = t

\* C33 witness: process_timeouts has just expired a target, the queue of one duration
\* has been emptied again, and the queue of another holds two targets, the second of
\* which was inserted at a later instant than the first
C33_Witness ==
    /\ ret.op = "process_timeouts" /\ ret.val # <<>>
    /\ \E d1, d2 \in DOMAIN queues :
          /\ queues[d1] = <<>>
          /\ Len(queues[d2]) = 2
          /\ timeouts[queues[d2][2]].idx = 1
          /\ timeouts[queues[d2][1]].instant < timeouts[queues[d2][2]].instant

\* the targets of the records of h whose duration is d, in the order of h
TargetsOf(h, d) ==
    LET Has(x) == x.duration = d
        sel == SelectSeq(h, Has)
    IN  [i \in 1..Len(sel) |-> sel[i].target]

\* the awaited targets whose time since their latest insert exceeds their duration
Due(h, now) ==
    LET Over(x) == now - x.at > x.duration
    IN  SelectSeq(h, Over)

\* the ExpiredTimeout events of one run of process_timeouts, as history records
Emitted(val, tm) ==
    [i \in 1..Len(val) |-> [target |-> val[i], duration |-> tm[val[i]].duration]]

\* C34: with a monotonic clock, a run of process_timeouts removes every target whose
\* time since its latest insert exceeds its duration and sends one ExpiredTimeout for
\* it, removes no other target, and sends the events of each duration in the order of
\* the inserts; a target that was removed or has expired is awaited no more, so it is
\* not reported again before it is inserted again
C34_Step ==
    (ret'.op = "process_timeouts" /\ clock' = clock /\ ~panicked) =>
        /\ \A x \in DOMAIN timeouts : \E i \in 1..Len(inserted) : inserted[i].target = x
        /\ \A i \in 1..Len(ret'.val) : ret'.val[i] \in DOMAIN timeouts
        /\ \A d \in Durations :
              TargetsOf(Emitted(ret'.val, timeouts), d) = TargetsOf(Due(inserted, clock), d)
        /\ DOMAIN timeouts' =
              DOMAIN timeouts \ {inserted[i].target : i \in
                                   {j \in 1..Len(inserted) :
                                       clock - inserted[j].at > inserted[j].duration}}

C34_ExpiryExact == [][C34_Step]_vars

\* C34 witness: a run of process_timeouts has sent two events and has kept a target
\* whose time since its insert is its duration exactly
C34_Witness ==
    /\ ret.op = "process_timeouts"
    /\ Len(ret.val) = 2
    /\ \E d \in DOMAIN queues :
          /\ Len(queues[d]) = 1
          /\ clock - timeouts[queues[d][1]].instant = d

\* C35: the value UserSessionsMap::insert and UserSessionsMap::remove return is the
\* number of sessions the map holds for that user after the call
C35_ReturnsCurrentCount ==
    ret.op \in {"usm_insert", "usm_remove"} =>
        ret.val[2] = sessions_of(user_sessions_map, ret.val[1])

\* C36: every Disconnected event a run of receive_messages sends, on the
\* ExternalReq::Disconnected, the ExternalReq::Unauthenticated and the closed-channel
\* path, is for a user whom the removal of the session left with no recorded session
C36_DisconnectedOnlyAtZero ==
    ret.op = "receive_messages" =>
        \A i \in 1..Len(ret.val) : ret.val[i].left = 0

\* C37: every invocation of recv_msgs terminates: once the system has entered its
\* loop, it returns (after try_recv has reported Empty or Disconnected)
C37_RecvMsgsReturns == (pc.at # "idle") ~> (pc.at = "idle")

====
